---- MODULE Spec2Model ----
(***************************************************************************)
(* AutoBizz backend: bid placement, auction lifecycle and push delivery.   *)
(*                                                                         *)
(* Money: a raw request amount is an integer number of thousandths         *)
(* (Decimal(str(amount)) with three decimal places); a stored              *)
(* Numeric(10, 2) amount is an integer number of cents.                    *)
(* Time: `now` and every timestamp are whole hours since the start; the    *)
(* clock is observed once per activation window.                           *)
(***************************************************************************)
EXTENDS Integers, Sequences, FiniteSets, TLC

(* ------------------------------ bounds -------------------------------- *)
MaxTime == 24         \* the clock stops advancing here
MaxAuctions == 2      \* auctions ever inserted
MaxBids == 3          \* bids ever inserted
MaxInflight == 2      \* requests handled concurrently
MaxScriptRows == 2    \* notification rows a long-lived session inserts
MaxAuditLogs == 2     \* rows of the audit_logs table
MaxApps == 2          \* app instances create_app builds in one process

(* ------------------------- program constants -------------------------- *)
ACTIVATION_HOURS == 24
BID_LIMIT == 2

(* ------------------------------ enums --------------------------------- *)
ADMIN == "admin"
SELLER == "seller"
BUYER == "buyer"
UserRole == {ADMIN, SELLER, BUYER}

USER_ACTIVE == "active"
USER_SUSPENDED == "suspended"
UserStatus == {USER_ACTIVE, USER_SUSPENDED}

DRAFT == "draft"
ACTIVE == "active"
CLOSED == "closed"
CANCELLED == "cancelled"
AuctionStatus == {DRAFT, ACTIVE, CLOSED, CANCELLED}

NEW_AUCTION == "new_auction"
RESULT == "result"
NotificationType == {NEW_AUCTION, RESULT}

NoTime == -1          \* a NULL start_at / end_at

\* SQLALCHEMY_DATABASE_URI: the default store and a DATABASE_URL server
SQLITE == "sqlite"
POSTGRESQL == "postgresql"

(* ------------------------------ state --------------------------------- *)
VARIABLES
    now,            \* utcnow()
    config,         \* app.config
    users,          \* table users: id -> row
    auctions,       \* table auctions: id -> row
    bids,           \* table bids: set of rows
    notifications,  \* table notifications: set of rows
    devices,        \* table devices: expo_push_token -> user_id
    nextAuctionId, nextBidId, nextNotifId,   \* uuid4() supply per table
    reqs,           \* the requests in flight, per worker slot
    script,         \* a long-lived session used outside a request
    deliveries,     \* every _dispatch_delivery call, in call order
    jwts,           \* the JWT claims of the token each client presents
    audit_logs,     \* table audit_logs, in insertion order
    extensions      \* app.extensions[_LISTENER_KEY] of each app instance

vars == <<now, config, users, auctions, bids, notifications, devices,
          nextAuctionId, nextBidId, nextNotifId, reqs, script, deliveries,
          jwts, audit_logs, extensions>>

ReqIds == 1..MaxInflight

\* the app instances of the process; app 1 is the one serving requests
AppIds == 1..MaxApps

UserIds == {"admin", "seller1", "seller2", "buyer1", "buyer2"}

(* --------------------------- pure helpers ----------------------------- *)
Abs(x) == IF x < 0 THEN -x ELSE x

\* every order in which a query may return the rows of S
Orderings(S) ==
    {s \in [1..Cardinality(S) -> S] : \A x \in S : \E i \in DOMAIN s : s[i] = x}

SeqToSet(s) == {s[i] : i \in 1..Len(s)}

\* Decimal(...).quantize(TWO_PLACES, rounding=ROUND_HALF_UP): thousandths to
\* cents, ties away from zero.
QuantizeTruncate(milli) ==
    IF milli < 0 THEN -(Abs(milli) \div 10) ELSE milli \div 10

QuantizeHalfUp(milli) ==
    IF milli < 0 THEN -((Abs(milli) + 5) \div 10) ELSE (milli + 5) \div 10

\* float(bid.amount): a Numeric(10, 2) value as the pair (units, hundredths)
\* of the float that prints it.
ToFloat(cents) == <<cents \div 100, cents % 100>>

(* Raw JSON values of "amount" / "min_price". *)
Missing == [kind |-> "missing", milli |-> 0]     \* key absent or null
Text == [kind |-> "text", milli |-> 0]           \* "abc", true, [1]
NaN == [kind |-> "nan", milli |-> 0]             \* "NaN"
Num(m) == [kind |-> "num", milli |-> m]
Absent == [kind |-> "absent", milli |-> 0]       \* PATCH body without the key

(* ------------------------------ text ---------------------------------- *)
\* a str is the sequence of its characters
UpperCase == <<"A", "B", "C", "D", "E", "F", "G", "H", "I", "J", "K", "L", "M",
               "N", "O", "P", "Q", "R", "S", "T", "U", "V", "W", "X", "Y", "Z">>

LowerCase == <<"a", "b", "c", "d", "e", "f", "g", "h", "i", "j", "k", "l", "m",
               "n", "o", "p", "q", "r", "s", "t", "u", "v", "w", "x", "y", "z">>

Digits == {"0", "1", "2", "3", "4", "5", "6", "7", "8", "9"}

Whitespace == {" "}

lower_char(c) ==
    IF \E i \in DOMAIN UpperCase : UpperCase[i] = c
    THEN LowerCase[CHOOSE i \in DOMAIN UpperCase : UpperCase[i] = c]
    ELSE c

\* str.lower()
lower(t) == [i \in DOMAIN t |-> lower_char(t[i])]

\* str.strip()
strip(t) ==
    LET kept == {i \in DOMAIN t : t[i] \notin Whitespace}
    IN IF kept = {} THEN <<>>
       ELSE SubSeq(t, CHOOSE i \in kept : \A j \in kept : i <= j,
                      CHOOSE i \in kept : \A j \in kept : i >= j)

\* re.fullmatch(r"[A-Za-z0-9_.-]{3,32}", username)
UsernameChars ==
    SeqToSet(UpperCase) \cup SeqToSet(LowerCase) \cup Digits \cup {"_", ".", "-"}

username_fullmatch(t) ==
    /\ Len(t) >= 3
    /\ Len(t) <= 32
    /\ \A i \in DOMAIN t : t[i] \in UsernameChars

\* werkzeug.security: a hash is checked against the password it was made of
generate_password_hash(password) == [hash_of |-> password]

check_password_hash(pwhash, password) ==
    pwhash = generate_password_hash(password)

(* ------------------------------ rows ---------------------------------- *)
NoBid == [id |-> 0, auction_id |-> 0, buyer_id |-> "", amount |-> 0,
          idx_per_buyer |-> 0, created_at |-> NoTime]

NoAuction == [id |-> 0, seller_id |-> "", title |-> "", min_price |-> 0,
              status |-> DRAFT, start_at |-> NoTime, end_at |-> NoTime]

is_active(u) == users[u].status = USER_ACTIVE

\* serialize_bid
serialize_bid(bid) ==
    [id |-> bid.id,
     amount |-> ToFloat(bid.amount),
     buyer_id |-> bid.buyer_id,
     buyer_username |-> users[bid.buyer_id].username,
     created_at |-> bid.created_at]

\* ORDER BY bids.amount DESC: rows of equal amount come in any order
OrderedByAmountAsc(s) ==
    \A i \in 1..(Len(s) - 1) : s[i].amount <= s[i + 1].amount

OrderedByAmountDesc(s) ==
    \A i \in 1..(Len(s) - 1) : s[i].amount >= s[i + 1].amount

\* Auction.bids: relationship(order_by="desc(Bid.amount)"), every list the
\* relationship may load
AuctionBidsLatestFirst(a) ==
    {s \in Orderings({b \in bids : b.auction_id = a}) :
        \A i \in 1..(Len(s) - 1) : s[i].id > s[i + 1].id}

AuctionBids(a) ==
    {s \in Orderings({b \in bids : b.auction_id = a}) : OrderedByAmountDesc(s)}

\* Device rows of one user, as _collect_notification reads them
UserTokens(u) == {t \in DOMAIN devices : devices[t] = u}

\* _extract_notification_data plus data["tokens"]
NotificationData(n, tokens) ==
    [id |-> n.id, user_id |-> n.user_id, type |-> n.type, tokens |-> tokens]

\* the listener sets init_app has attached to Notification and db.session:
\* one per app instance that passed the _LISTENER_KEY guard
Listeners == Cardinality({app \in AppIds : extensions[app]})

\* the after_insert event of the rows ns, inserted in that order: every
\* attached _collect_notification appends its own entry for each row
_collect_notification(ns) ==
    [k \in 1..(Len(ns) * Listeners) |->
        LET n == ns[((k - 1) \div Listeners) + 1]
        IN NotificationData(n, UserTokens(n.user_id))]

IdleReq == [op |-> "none", pc |-> "done", user |-> "", auction_id |-> 0,
            raw |-> Missing, auction |-> NoAuction, checked_at |-> NoTime,
            existing_count |-> 0, amount |-> 0, bid |-> NoBid,
            pending |-> <<>>, todo |-> <<>>, code |-> 0, detail |-> "",
            body |-> <<>>, loaded |-> {}, json |-> <<>>, target |-> ""]

Respond(r, code, detail) ==
    [r EXCEPT !.pc = "done", !.code = code, !.detail = detail,
              !.pending = <<>>, !.todo = <<>>]

(* --------------------------- initial state ---------------------------- *)
\* users as provisioned by the admin endpoints before the run starts
SeedUsernames ==
    [admin |-> <<"a", "d", "m", "i", "n">>,
     seller1 |-> <<"s", "e", "l", "l", "e", "r", "1">>,
     seller2 |-> <<"s", "e", "l", "l", "e", "r", "2">>,
     buyer1 |-> <<"b", "u", "y", "e", "r", "1">>,
     buyer2 |-> <<"b", "u", "y", "e", "r", "2">>]

MailDomain == <<"@", "x", ".", "i", "o">>

SeedPassword == <<"s", "e", "e", "d", "-", "p", "a", "s", "s", "w", "o", "r", "d">>

InitUsers ==
    [u \in UserIds |->
        [username |-> SeedUsernames[u],
         email |-> SeedUsernames[u] \o MailDomain,
         password_hash |-> generate_password_hash(SeedPassword),
         role |-> CASE u = "admin" -> ADMIN
                    [] u \in {"seller1", "seller2"} -> SELLER
                    [] OTHER -> BUYER,
         status |-> USER_ACTIVE]]

\* the claims login puts into the access and the refresh token
TokenClaims(user) == [role |-> user.role, status |-> user.status]

\* An auction row found in the store at start-up.  A DRAFT row is the
\* model's default (no window); any other status carries the window that
\* activate() wrote.
SeedAuction(st) ==
    [id |-> 1, seller_id |-> "seller1", title |-> "t1", min_price |-> 150,
     status |-> st,
     start_at |-> IF st = DRAFT THEN NoTime ELSE 0,
     end_at |-> IF st = DRAFT THEN NoTime ELSE ACTIVATION_HOURS]

InitWith(threadModes, seedStatuses, suspendable, stores) ==
    /\ now = 0
    /\ config \in [PUSH_DELIVERY_USE_THREAD : threadModes,
                    DISABLE_PUSH_DELIVERY : {FALSE},
                    SQLALCHEMY_DATABASE_URI : stores]
    /\ \E S \in SUBSET suspendable :
          users = [u \in UserIds |->
                     IF u \in S
                     THEN [InitUsers[u] EXCEPT !.status = USER_SUSPENDED]
                     ELSE InitUsers[u]]
    /\ \E st \in seedStatuses : auctions = (1 :> SeedAuction(st))
    /\ bids = {}
    /\ notifications = {}
    /\ devices = ("tokA" :> "seller1")
    /\ nextAuctionId = 2
    /\ nextBidId = 1
    /\ nextNotifId = 1
    /\ reqs = [r \in ReqIds |-> IdleReq]
    /\ script = [rows |-> {}, pending |-> <<>>, todo |-> <<>>, inserted |-> 0,
                 calls |-> <<>>]
    /\ deliveries = <<>>
    /\ jwts = [u \in UserIds |-> TokenClaims(InitUsers[u])]
    /\ audit_logs = <<>>
    /\ extensions = [app \in AppIds |-> app = 1]


(* ------------------------------ clock --------------------------------- *)
Tick ==
    /\ now + ACTIVATION_HOURS <= MaxTime
    /\ now' = now + ACTIVATION_HOURS
    /\ UNCHANGED <<extensions, config, users, auctions, bids, notifications, devices,
                   nextAuctionId, nextBidId, nextNotifId, reqs, script,
                   deliveries,
                   jwts, audit_logs>>

(* --------------------------- authentication --------------------------- *)
\* role_required: the role claim of the caller's JWT
TokenRole(u) == jwts[u].role

\* role_required + get_current_user: 0 when the caller passes, else the
\* status code of the abort
AuthFailure(u, allowed) ==
    IF TokenRole(u) \notin allowed THEN 403
    ELSE IF ~is_active(u) THEN 403
    ELSE 0

AuthDetail(u, allowed) ==
    IF TokenRole(u) \notin allowed THEN "Insufficient permissions"
    ELSE "User account is suspended"

(* ------------------------------ accounts ------------------------------ *)
\* JSON values of the text fields of a request body
JsonStr(t) == [kind |-> "str", text |-> t]
JsonNull == [kind |-> "null", text |-> <<>>]      \* null, a number, a list
JsonAbsent == [kind |-> "absent", text |-> <<>>]  \* the key is not there

isinstance_str(j) == j.kind = "str"

\* Python truth of a JSON value
TruthyNever(j) == FALSE

Truthy(j) == j.kind = "str" /\ j.text # <<>>

\* UserRole(...).value and UserStatus(...).value as text
RoleText ==
    (ADMIN :> <<"a", "d", "m", "i", "n">>)
    @@ (SELLER :> <<"s", "e", "l", "l", "e", "r">>)
    @@ (BUYER :> <<"b", "u", "y", "e", "r">>)

StatusText ==
    (USER_ACTIVE :> <<"a", "c", "t", "i", "v", "e">>)
    @@ (USER_SUSPENDED :> <<"s", "u", "s", "p", "e", "n", "d", "e", "d">>)

IsRoleText(t) == \E x \in UserRole : RoleText[x] = t
RoleOfText(t) == CHOOSE x \in UserRole : RoleText[x] = t
IsStatusText(t) == \E x \in UserStatus : StatusText[x] = t
StatusOfText(t) == CHOOSE x \in UserStatus : StatusText[x] = t

\* uuid4 primary keys of the user rows added while the system runs
NewUserIds == <<"user6", "user7">>

UsersAdded == Cardinality(DOMAIN users) - Cardinality(UserIds)

NextUserId == NewUserIds[UsersAdded + 1]

\* (func.lower(User.email) == email) | (User.username == username)
UserExists(email, username) ==
    \E u \in DOMAIN users :
        lower(users[u].email) = email \/ users[u].username = username

\* register_user, whole handler
RegisterUser(r, data) ==
    /\ reqs[r].pc = "done"
    /\ UsersAdded < Len(NewUserIds)
    /\ LET base == [IdleReq EXCEPT !.op = "register_user",
                                   !.checked_at = now, !.json = <<data>>]
           username == strip(data.username.text)
           email == lower(strip(data.email.text))
           password == strip(data.password.text)
           failure ==
               IF \/ ~isinstance_str(data.username)
                  \/ ~isinstance_str(data.email)
                  \/ ~isinstance_str(data.password)
               THEN 400
               ELSE IF username = <<>> \/ password = <<>> \/ email = <<>>
               THEN 400
               ELSE IF ~username_fullmatch(username) THEN 400
               ELSE IF Len(password) < 12 THEN 400
               ELSE IF Truthy(data.role) /\ data.role.text # RoleText[BUYER]
               THEN 403
               ELSE IF UserExists(email, username) THEN 409
               ELSE 0
           user == [username |-> username, email |-> email,
                    password_hash |-> generate_password_hash(password),
                    role |-> BUYER, status |-> USER_ACTIVE]
       IN IF failure # 0
          THEN /\ reqs' = [reqs EXCEPT ![r] = Respond(base, failure, "")]
               /\ UNCHANGED users
          ELSE /\ users' = users @@ (NextUserId :> user)
               /\ reqs' = [reqs EXCEPT ![r] =
                     Respond([base EXCEPT !.target = NextUserId], 201, "")]
    /\ UNCHANGED <<extensions, now, config, auctions, bids, notifications, devices,
                   nextAuctionId, nextBidId, nextNotifId, script,
                   deliveries, jwts, audit_logs>>

\* User.query.filter((User.username == identifier) |
\*                   (User.email == identifier)): the matching rows
LoginMatches(identifier) ==
    {u \in DOMAIN users :
        users[u].username = identifier \/ users[u].email = identifier}

\* .first() of a query without ORDER BY: any one of the rows, or None
NoUser == ""

FirstOf(S) == IF S = {} THEN {NoUser} ELSE S

\* login, whole handler; the client keeps the tokens it is given
Login(r, data) ==
    /\ reqs[r].pc = "done"
    /\ LET base == [IdleReq EXCEPT !.op = "login", !.checked_at = now,
                                   !.json = <<data>>]
           identifier == strip(data.usernameOrEmail.text)
           password == data.password.text
       IN IF \/ ~isinstance_str(data.usernameOrEmail)
             \/ ~isinstance_str(data.password)
             \/ identifier = <<>>
             \/ password = <<>>
          THEN /\ reqs' = [reqs EXCEPT ![r] = Respond(base, 400, "")]
               /\ UNCHANGED jwts
          ELSE \E user \in FirstOf(LoginMatches(identifier)) :
                 IF user = NoUser
                 THEN /\ reqs' = [reqs EXCEPT ![r] =
                            Respond(base, 401, "Invalid credentials")]
                      /\ UNCHANGED jwts
                 ELSE IF ~check_password_hash(users[user].password_hash,
                                              password)
                 THEN /\ reqs' = [reqs EXCEPT ![r] =
                            Respond([base EXCEPT !.target = user], 401,
                                    "Invalid credentials")]
                      /\ UNCHANGED jwts
                 ELSE IF ~is_active(user)
                 THEN /\ reqs' = [reqs EXCEPT ![r] =
                            Respond([base EXCEPT !.target = user], 403,
                                    "User suspended")]
                      /\ UNCHANGED jwts
                 ELSE /\ reqs' = [reqs EXCEPT ![r] =
                            Respond([base EXCEPT !.user = user,
                                                 !.target = user], 200, "")]
                      /\ jwts' = (user :> TokenClaims(users[user])) @@ jwts
    /\ UNCHANGED <<extensions, now, config, users, auctions, bids, notifications,
                   devices, nextAuctionId, nextBidId, nextNotifId, script,
                   deliveries, audit_logs>>

\* refresh_token, whole handler: a new access token with the claims of the
\* refresh token; no row is read
RefreshToken(r, u) ==
    /\ reqs[r].pc = "done"
    /\ u \in DOMAIN jwts
    /\ jwts' = [jwts EXCEPT ![u] = [role |-> jwts[u].role,
                                     status |-> jwts[u].status]]
    /\ reqs' = [reqs EXCEPT ![r] =
          Respond([IdleReq EXCEPT !.op = "refresh_token", !.user = u,
                                  !.checked_at = now], 200, "")]
    /\ UNCHANGED <<extensions, now, config, users, auctions, bids, notifications,
                   devices, nextAuctionId, nextBidId, nextNotifId, script,
                   deliveries, audit_logs>>

\* AuditLog(...)
AuditLog(actor_id, action, target_id, meta) ==
    [actor_id |-> actor_id, action |-> action, target_type |-> "user",
     target_id |-> target_id, meta |-> meta]

\* update_user: the audit entries of a request body
UpdateAuditEntries(actor, target, data) ==
    (IF data.status.kind = "absent" THEN <<>>
     ELSE <<AuditLog(actor, "update_user_status", target,
                     lower(strip(data.status.text)))>>)
    \o (IF data.role.kind = "absent" THEN <<>>
        ELSE <<AuditLog(actor, "update_user_role", target,
                        lower(strip(data.role.text)))>>)

\* update_user (admin), whole handler.  role_required reads the role claim
\* of the token; the caller's row is not read.
AdminUpdateUser(r, actor, target, data) ==
    /\ reqs[r].pc = "done"
    /\ actor \in DOMAIN jwts
    /\ Len(audit_logs) + Len(UpdateAuditEntries(actor, target, data))
          <= MaxAuditLogs
    /\ LET base == [IdleReq EXCEPT !.op = "update_user", !.user = actor,
                                   !.target = target, !.checked_at = now,
                                   !.json = <<data>>]
           status_value == lower(strip(data.status.text))
           role_value == lower(strip(data.role.text))
           failure ==
               IF TokenRole(actor) # ADMIN THEN 403
               ELSE IF data.status.kind = "absent"
                       /\ data.role.kind = "absent"
               THEN 400
               ELSE IF target \notin DOMAIN users THEN 404
               ELSE IF data.status.kind # "absent"
                       /\ (~isinstance_str(data.status)
                           \/ ~IsStatusText(status_value))
               THEN 400
               ELSE IF data.role.kind # "absent"
                       /\ (~isinstance_str(data.role)
                           \/ ~IsRoleText(role_value))
               THEN 400
               ELSE 0
           with_status == IF data.status.kind = "absent" THEN users[target]
                          ELSE [users[target] EXCEPT
                                  !.status = StatusOfText(status_value)]
           with_role == IF data.role.kind = "absent" THEN with_status
                        ELSE [with_status EXCEPT
                                !.role = RoleOfText(role_value)]
       IN IF failure # 0
          THEN /\ reqs' = [reqs EXCEPT ![r] = Respond(base, failure, "")]
               /\ UNCHANGED <<users, audit_logs>>
          ELSE /\ users' = [users EXCEPT ![target] = with_role]
               /\ audit_logs' = audit_logs
                                   \o UpdateAuditEntries(actor, target, data)
               /\ reqs' = [reqs EXCEPT ![r] = Respond(base, 200, "")]
    /\ UNCHANGED <<extensions, now, config, auctions, bids, notifications, devices,
                   nextAuctionId, nextBidId, nextNotifId, script,
                   deliveries, jwts>>

\* create_user (admin), whole handler
AdminCreateUser(r, actor, data) ==
    /\ reqs[r].pc = "done"
    /\ actor \in DOMAIN jwts
    /\ UsersAdded < Len(NewUserIds)
    /\ Len(audit_logs) < MaxAuditLogs
    /\ LET base == [IdleReq EXCEPT !.op = "create_user", !.user = actor,
                                   !.checked_at = now, !.json = <<data>>]
           email == lower(strip(data.email.text))
           username == strip(data.username.text)
           role_value == lower(strip(data.role.text))
           password == strip(data.password.text)
           failure ==
               IF TokenRole(actor) # ADMIN THEN 403
               ELSE IF \/ ~isinstance_str(data.email)
                       \/ ~isinstance_str(data.username)
                       \/ ~isinstance_str(data.role)
                       \/ ~isinstance_str(data.password)
               THEN 400
               ELSE IF \/ email = <<>> \/ username = <<>>
                       \/ role_value = <<>> \/ password = <<>>
               THEN 400
               ELSE IF ~username_fullmatch(username) THEN 400
               ELSE IF ~IsRoleText(role_value) THEN 400
               ELSE IF Len(password) < 12 THEN 400
               ELSE IF UserExists(email, username) THEN 409
               ELSE 0
           user == [username |-> username, email |-> email,
                    password_hash |-> generate_password_hash(password),
                    role |-> RoleOfText(role_value), status |-> USER_ACTIVE]
       IN IF failure # 0
          THEN /\ reqs' = [reqs EXCEPT ![r] = Respond(base, failure, "")]
               /\ UNCHANGED <<users, audit_logs>>
          ELSE /\ users' = users @@ (NextUserId :> user)
               /\ audit_logs' = Append(audit_logs,
                     AuditLog(actor, "create_user", NextUserId, role_value))
               /\ reqs' = [reqs EXCEPT ![r] =
                     Respond([base EXCEPT !.target = NextUserId], 201, "")]
    /\ UNCHANGED <<extensions, now, config, auctions, bids, notifications, devices,
                   nextAuctionId, nextBidId, nextNotifId, script,
                   deliveries, jwts>>

\* invite_user, whole handler: the role is compared as sent, the default is
\* "buyer"
InviteUser(r, actor, data) ==
    /\ reqs[r].pc = "done"
    /\ actor \in DOMAIN jwts
    /\ Len(audit_logs) < MaxAuditLogs
    /\ LET base == [IdleReq EXCEPT !.op = "invite_user", !.user = actor,
                                   !.checked_at = now, !.json = <<data>>]
           role_value == IF data.role.kind = "absent" THEN RoleText[BUYER]
                         ELSE data.role.text
           failure ==
               IF TokenRole(actor) # ADMIN THEN 403
               ELSE IF ~isinstance_str(data.role) /\ data.role.kind # "absent"
               THEN 400
               ELSE IF ~IsRoleText(role_value) THEN 400
               ELSE 0
       IN IF failure # 0
          THEN /\ reqs' = [reqs EXCEPT ![r] = Respond(base, failure, "")]
               /\ UNCHANGED audit_logs
          ELSE /\ audit_logs' = Append(audit_logs,
                     AuditLog(actor, "invite_user",
                              IF Truthy(data.email) THEN data.email.text
                              ELSE <<"u", "n", "k", "n", "o", "w", "n">>,
                              role_value))
               /\ reqs' = [reqs EXCEPT ![r] = Respond(base, 201, "")]
    /\ UNCHANGED <<extensions, now, config, users, auctions, bids, notifications,
                   devices, nextAuctionId, nextBidId, nextNotifId, script,
                   deliveries, jwts>>

\* reset_password, whole handler
ResetPassword(r, actor, target) ==
    /\ reqs[r].pc = "done"
    /\ actor \in DOMAIN jwts
    /\ Len(audit_logs) < MaxAuditLogs
    /\ LET base == [IdleReq EXCEPT !.op = "reset_password", !.user = actor,
                                   !.target = target, !.checked_at = now]
           failure ==
               IF TokenRole(actor) # ADMIN THEN 403
               ELSE IF target \notin DOMAIN users THEN 404
               ELSE 0
       IN IF failure # 0
          THEN /\ reqs' = [reqs EXCEPT ![r] = Respond(base, failure, "")]
               /\ UNCHANGED audit_logs
          ELSE /\ audit_logs' = Append(audit_logs,
                     AuditLog(actor, "reset_password", target, <<>>))
               /\ reqs' = [reqs EXCEPT ![r] = Respond(base, 200, "")]
    /\ UNCHANGED <<extensions, now, config, users, auctions, bids, notifications,
                   devices, nextAuctionId, nextBidId, nextNotifId, script,
                   deliveries, jwts>>

\* setup_production._create_or_update_admin, run by the operator with the
\* prompts about the password and the email answered no: the first row
\* whose username or email equals the argument becomes ADMIN, or a new
\* ADMIN row is inserted
CreateOrUpdateAdmin(username, email, password) ==
    /\ LET found == {u \in DOMAIN users :
                       users[u].username = username
                       \/ users[u].email = email}
       IN \E existing \in FirstOf(found) :
            /\ existing = NoUser => UsersAdded < Len(NewUserIds)
            /\ users' =
                     IF existing # NoUser
                     THEN [users EXCEPT ![existing].role = ADMIN]
                     ELSE users @@ (NextUserId :>
                            [username |-> username, email |-> email,
                             password_hash |->
                                 generate_password_hash(password),
                             role |-> ADMIN, status |-> USER_ACTIVE])
    /\ UNCHANGED <<extensions, now, config, auctions, bids, notifications, devices,
                   nextAuctionId, nextBidId, nextNotifId, reqs, script,
                   deliveries, jwts, audit_logs>>

(* ---------------------------- push delivery --------------------------- *)
\* _send_to_expo: what the call does for each behaviour of the transport
ExpoOutcomes == {"ok", "post_raises", "http_error", "not_json", "bad_shape",
                 "ticket_errors"}

_send_to_expo(expo) ==
    CASE expo = "post_raises" -> "raised"      \* requests.post raises
      [] expo = "http_error" -> "raised"       \* raise_for_status
      [] expo = "bad_shape" -> "raised"        \* payload.get on a non-dict
      [] expo = "not_json" -> "returned"       \* ValueError caught, logged
      [] expo = "ticket_errors" -> "returned"  \* errors logged
      [] OTHER -> "returned"

\* deliver_notification(data) for the dict _after_commit passes: how the call
\* ends.  "crashed" is an exception leaving deliver_notification: render_ok
\* is false when a lookup of _render_message raises.
deliver_notification(data, render_ok, expo) ==
    IF data.tokens = {} THEN "skipped"
    ELSE IF ~render_ok THEN "crashed"
    ELSE IF _send_to_expo(expo) = "raised" THEN "failed"
    ELSE "sent"

\* _dispatch_delivery: `if not app.config.get("PUSH_DELIVERY_USE_THREAD", True)`
InlineAlways == TRUE

Inline == ~config.PUSH_DELIVERY_USE_THREAD

\* _after_commit + _dispatch_delivery in thread mode: one daemon thread per
\* pending entry, started in list order
StartThreads(pending) ==
    IF config.DISABLE_PUSH_DELIVERY THEN deliveries
    ELSE deliveries \o [i \in 1..Len(pending) |->
                          [data |-> pending[i], inline |-> FALSE,
                           state |-> "started"]]

\* the request after COMMIT: in inline mode it still has to run the
\* deliveries of _after_commit before commit() returns
AfterCommitFails(req, pending, code) ==
    Respond(req, 500, "Internal Server Error")

AfterCommit(req, pending, code) ==
    IF Inline /\ pending # <<>> /\ ~config.DISABLE_PUSH_DELIVERY
    THEN [req EXCEPT !.pc = "dispatch", !.todo = pending, !.pending = <<>>,
                     !.code = code]
    ELSE Respond(req, code, "")

\* one pass of the loop in _after_commit, inline mode
InlineDeliver(r, render_ok, expo) ==
    /\ reqs[r].pc = "dispatch"
    /\ reqs[r].todo # <<>>
    /\ LET d == Head(reqs[r].todo)
           st == deliver_notification(d, render_ok, expo)
       IN /\ deliveries' = Append(deliveries,
                                 [data |-> d, inline |-> TRUE, state |-> st])
          /\ reqs' = [reqs EXCEPT ![r] =
                IF st = "crashed"
                THEN Respond(reqs[r], 500, "Internal Server Error")
                ELSE IF Tail(reqs[r].todo) = <<>>
                THEN Respond(reqs[r], reqs[r].code, "")
                ELSE [reqs[r] EXCEPT !.todo = Tail(reqs[r].todo)]]
    /\ UNCHANGED <<extensions, now, config, users, auctions, bids, notifications,
                   devices, nextAuctionId, nextBidId, nextNotifId, script,
                   jwts, audit_logs>>

\* _worker: the body of one push-delivery thread
WorkerDeliver(i, render_ok, expo) ==
    /\ i \in 1..Len(deliveries)
    /\ deliveries[i].state = "started"
    /\ deliveries' = [deliveries EXCEPT ![i].state =
                        deliver_notification(deliveries[i].data, render_ok,
                                             expo)]
    /\ UNCHANGED <<extensions, now, config, users, auctions, bids, notifications,
                   devices, nextAuctionId, nextBidId, nextNotifId, reqs,
                   script,
                   jwts, audit_logs>>

(* ------------------------------ place_bid ----------------------------- *)
\* bids.py: `if end_at and end_at <= utcnow()`
AuctionExpiredStrict(end_at, t) == end_at # NoTime /\ end_at < t

AuctionExpired(end_at, t) == end_at # NoTime /\ end_at <= t

\* bids.py: `if existing_count >= 2`
QuotaReached(count) == count >= BID_LIMIT

\* Bid.query.filter_by(auction_id=..., buyer_id=...).count()
CountBids(a, u) ==
    Cardinality({b \in bids : b.auction_id = a /\ b.buyer_id = u})

\* UniqueConstraint("auction_id", "buyer_id", "idx_per_buyer")
SameKey(b1, b2) ==
    /\ b1.auction_id = b2.auction_id
    /\ b1.buyer_id = b2.buyer_id
    /\ b1.idx_per_buyer = b2.idx_per_buyer

UniqueViolationOff(bid) == FALSE

UniqueViolation(bid) == \E b \in bids : SameKey(b, bid)

\* db.ForeignKey("auctions.id"): SQLite checks no foreign key unless the
\* connection asks for it, a PostgreSQL server always does
ForeignKeysEnforced == config.SQLALCHEMY_DATABASE_URI # SQLITE

\* the INSERT of a bid whose auction row is gone
ForeignKeyViolation(bid) ==
    ForeignKeysEnforced /\ bid.auction_id \notin DOMAIN auctions

\* an INSERT of the same key by a transaction that has not ended yet
InsertBlockedNever(r, bid) == FALSE

InsertBlocked(r, bid) ==
    \E r2 \in ReqIds \ {r} :
        /\ reqs[r2].op = "place_bid"
        /\ reqs[r2].pc = "commit"
        /\ SameKey(reqs[r2].bid, bid)

\* the view function up to the first query: decorators, get_current_user,
\* the amount presence test, the auction lookup and the state checks
PlaceBidLoad(r, u, a, raw) ==
    /\ reqs[r].pc = "done"
    /\ LET base == [IdleReq EXCEPT !.op = "place_bid", !.user = u,
                                   !.auction_id = a, !.raw = raw,
                                   !.checked_at = now]
           found == [base EXCEPT !.auction = auctions[a]]
       IN reqs' = [reqs EXCEPT ![r] =
            IF AuthFailure(u, {BUYER}) # 0
            THEN Respond(base, AuthFailure(u, {BUYER}), AuthDetail(u, {BUYER}))
            ELSE IF raw.kind = "missing"
            THEN Respond(base, 400, "Missing bid amount")
            ELSE IF a \notin DOMAIN auctions
            THEN Respond(base, 404, "Auction not found")
            ELSE IF auctions[a].status # ACTIVE
            THEN Respond(found, 400, "Auction not active")
            ELSE IF AuctionExpired(auctions[a].end_at, now)
            THEN Respond(found, 400, "Auction already closed")
            ELSE [found EXCEPT !.pc = "count"]]
    /\ UNCHANGED <<extensions, now, config, users, auctions, bids, notifications,
                   devices, nextAuctionId, nextBidId, nextNotifId, script,
                   deliveries,
                   jwts, audit_logs>>

\* the count query, the quota test and the amount parsing
PlaceBidCount(r) ==
    /\ reqs[r].op = "place_bid"
    /\ reqs[r].pc = "count"
    /\ LET req == reqs[r]
           existing_count == CountBids(req.auction_id, req.user)
           counted == [req EXCEPT !.existing_count = existing_count]
           amount_decimal == QuantizeHalfUp(req.raw.milli)
       IN reqs' = [reqs EXCEPT ![r] =
            IF QuotaReached(existing_count)
            THEN Respond(counted, 400, "Bid limit reached for this auction")
            ELSE IF req.raw.kind = "text"
            THEN Respond(counted, 400, "Bid amount must be numeric")
            ELSE IF req.raw.kind = "nan"
            THEN Respond(counted, 500, "Internal Server Error")
            ELSE IF amount_decimal <= 0
            THEN Respond(counted, 400, "Bid amount must be positive")
            ELSE [counted EXCEPT !.pc = "flush", !.amount = amount_decimal]]
    /\ UNCHANGED <<extensions, now, config, users, auctions, bids, notifications,
                   devices, nextAuctionId, nextBidId, nextNotifId, script,
                   deliveries,
                   jwts, audit_logs>>

\* Bid(...), db.session.add(bid), db.session.flush(): the INSERT.  A key
\* held by a transaction still open makes the INSERT wait, or give up when
\* the engine's lock wait times out.  The row's uuid4 primary key is drawn
\* from the supply when the row becomes visible, at COMMIT.
PlaceBidFlush(r) ==
    /\ reqs[r].op = "place_bid"
    /\ reqs[r].pc = "flush"
    /\ nextBidId + Cardinality({r2 \in ReqIds : reqs[r2].pc = "commit"})
          <= MaxBids
    /\ LET req == reqs[r]
           bid == [id |-> 0, auction_id |-> req.auction_id,
                   buyer_id |-> req.user, amount |-> req.amount,
                   idx_per_buyer |-> req.existing_count + 1,
                   created_at |-> now]
       IN \/ /\ UniqueViolation(bid) \/ ForeignKeyViolation(bid)
             /\ reqs' = [reqs EXCEPT ![r] =
                            Respond(req, 500, "Internal Server Error")]
          \/ /\ ~UniqueViolation(bid)
             /\ ~ForeignKeyViolation(bid)
             /\ InsertBlocked(r, bid)
             /\ reqs' = [reqs EXCEPT ![r] =
                            Respond(req, 500, "Internal Server Error")]
          \/ /\ ~UniqueViolation(bid)
             /\ ~ForeignKeyViolation(bid)
             /\ ~InsertBlocked(r, bid)
             /\ reqs' = [reqs EXCEPT ![r] =
                            [req EXCEPT !.pc = "commit", !.bid = bid]]
    /\ UNCHANGED <<extensions, now, config, users, auctions, bids, notifications,
                   devices, nextAuctionId, nextBidId, nextNotifId, script,
                   deliveries,
                   jwts, audit_logs>>

\* notify_bid_outcome
notify_bid_outcome_to_buyer(auction, bid, id) ==
    [id |-> id, user_id |-> bid.buyer_id, type |-> RESULT,
     payload |-> [auction_id |-> auction.id,
                  latest_bid |-> serialize_bid(bid)]]

notify_bid_outcome(auction, bid, id) ==
    [id |-> id, user_id |-> auction.seller_id, type |-> RESULT,
     payload |-> [auction_id |-> auction.id,
                  latest_bid |-> serialize_bid(bid)]]

\* notify_bid_outcome and db.session.commit(): the notification INSERT
\* (collected by _collect_notification), COMMIT, then _after_commit.
\* `fault` is a persistence fault at that flush or at COMMIT.
PlaceBidCommit(r, fault) ==
    /\ reqs[r].op = "place_bid"
    /\ reqs[r].pc = "commit"
    /\ LET req == reqs[r]
           bid == [req.bid EXCEPT !.id = nextBidId]
           n == notify_bid_outcome(req.auction, bid, nextNotifId)
           pending == _collect_notification(<<n>>)
       IN IF fault
          THEN /\ reqs' = [reqs EXCEPT ![r] =
                             Respond(req, 500, "Internal Server Error")]
               /\ UNCHANGED <<bids, notifications, nextBidId, nextNotifId,
                              deliveries>>
          ELSE /\ bids' = bids \cup {bid}
               /\ notifications' = notifications \cup {n}
               /\ nextBidId' = nextBidId + 1
               /\ nextNotifId' = nextNotifId + 1
               /\ reqs' = [reqs EXCEPT ![r] =
                     AfterCommit([req EXCEPT !.bid = bid], pending, 201)]
               /\ deliveries' = IF Inline THEN deliveries
                                ELSE StartThreads(pending)
    /\ UNCHANGED <<extensions, now, config, users, auctions, devices, nextAuctionId,
                   script,
                   jwts, audit_logs>>

(* ------------------------- auction lifecycle -------------------------- *)
\* Auction.activate
CanActivateAny(auction) == TRUE

CanActivate(auction) == auction.status = DRAFT

activate_no_window(auction, start) ==
    [auction EXCEPT !.start_at = start, !.status = ACTIVE]

activate(auction, start) ==
    [auction EXCEPT !.start_at = start,
                    !.end_at = start + ACTIVATION_HOURS,
                    !.status = ACTIVE]

\* Auction.close
close(auction) == [auction EXCEPT !.status = CLOSED]

\* auction.activate(start_time=...) on a stored row, by a session that
\* commits when the call returns and is discarded when it raises ValueError;
\* start_time NoTime is the default None
ActivateCall(r, a, start_time) ==
    /\ reqs[r].pc = "done"
    /\ a \in DOMAIN auctions
    /\ LET base == [IdleReq EXCEPT !.op = "activate", !.auction_id = a,
                                   !.checked_at = now]
           start == IF start_time = NoTime THEN now ELSE start_time
           activated == activate(auctions[a], start)
       IN IF ~CanActivate(auctions[a])
          THEN /\ reqs' = [reqs EXCEPT ![r] =
                             Respond([base EXCEPT !.auction = auctions[a]], 0,
                                     "Only draft auctions can be activated")]
               /\ UNCHANGED auctions
          ELSE /\ auctions' = [auctions EXCEPT ![a] = activated]
               /\ reqs' = [reqs EXCEPT ![r] =
                             Respond([base EXCEPT !.auction = activated], 0, "")]
    /\ UNCHANGED <<extensions, now, config, users, bids, notifications, devices,
                   nextAuctionId, nextBidId, nextNotifId, script,
                   deliveries,
                   jwts, audit_logs>>

\* auction.close() on a stored row, committed
CloseCall(r, a) ==
    /\ reqs[r].pc = "done"
    /\ a \in DOMAIN auctions
    /\ auctions' = [auctions EXCEPT ![a] = close(auctions[a])]
    /\ reqs' = [reqs EXCEPT ![r] =
                  Respond([IdleReq EXCEPT !.op = "close", !.auction_id = a,
                                          !.checked_at = now,
                                          !.auction = close(auctions[a])],
                          0, "")]
    /\ UNCHANGED <<extensions, now, config, users, bids, notifications, devices,
                   nextAuctionId, nextBidId, nextNotifId, script,
                   deliveries,
                   jwts, audit_logs>>

(* --------------------------- create_auction --------------------------- *)
NoKey == "<absent>"      \* the JSON key is not in the request body
Blank == ""              \* null, a non-string or whitespace only

\* _sanitize_text: passes for a non-blank string
SanitizeNeverFails(value) == FALSE

SanitizeFails(value) == value \in {NoKey, Blank}

\* _parse_price: 0 when it returns, else the status code of the failure
ParsePriceFailure(raw) ==
    CASE raw.kind = "missing" -> 400     \* "Missing minimum price"
      [] raw.kind = "text" -> 400        \* "Minimum price must be numeric"
      [] raw.kind = "nan" -> 500         \* NaN <= 0 raises InvalidOperation
      [] OTHER -> IF QuantizeHalfUp(raw.milli) <= 0 THEN 400 ELSE 0

_parse_price(raw) == QuantizeHalfUp(raw.milli)

SetToSeq(S) ==
    LET RECURSIVE build(_)
        build(T) == IF T = {} THEN <<>>
                    ELSE LET m == CHOOSE x \in T : TRUE
                         IN <<m>> \o build(T \ {m})
    IN build(S)

\* notify_new_auction: User.query.filter_by(role=BUYER, status=ACTIVE)
AllBuyers == {u \in DOMAIN users : users[u].role = BUYER}

ActiveBuyers ==
    {u \in DOMAIN users :
        users[u].role = BUYER /\ users[u].status = USER_ACTIVE}

notify_new_auction(auction, firstId) ==
    LET buyers == SetToSeq(ActiveBuyers)
    IN [i \in 1..Len(buyers) |->
          [id |-> firstId + i - 1, user_id |-> buyers[i],
           type |-> NEW_AUCTION,
           payload |-> [auction_id |-> auction.id]]]

\* create_auction, whole handler: validation, Auction(...), activate(),
\* flush, notify_new_auction, commit and _after_commit
CreateAuction(r, u, data, fault) ==
    /\ reqs[r].pc = "done"
    /\ nextAuctionId <= MaxAuctions
    /\ LET base == [IdleReq EXCEPT !.op = "create_auction", !.user = u,
                                   !.auction_id = nextAuctionId,
                                   !.raw = data.min_price,
                                   !.checked_at = now]
           draft == [id |-> nextAuctionId, seller_id |-> u,
                     title |-> data.title,
                     min_price |-> _parse_price(data.min_price),
                     status |-> DRAFT, start_at |-> NoTime,
                     end_at |-> NoTime]
           auction == activate(draft, now)
           ns == notify_new_auction(auction, nextNotifId)
           pending == _collect_notification(ns)
           failure ==
               IF AuthFailure(u, {SELLER, ADMIN}) # 0
               THEN AuthFailure(u, {SELLER, ADMIN})
               ELSE IF SanitizeFails(data.title) THEN 400
               ELSE IF ParsePriceFailure(data.min_price) # 0
               THEN ParsePriceFailure(data.min_price)
               ELSE IF ~data.carte_grise THEN 400
               ELSE IF fault THEN 500
               ELSE 0
       IN IF failure # 0
          THEN /\ reqs' = [reqs EXCEPT ![r] = Respond(base, failure, "")]
               /\ UNCHANGED <<auctions, notifications, nextAuctionId,
                              nextNotifId, deliveries>>
          ELSE /\ auctions' = auctions @@ (auction.id :> auction)
               /\ notifications' = notifications \cup SeqToSet(ns)
               /\ nextAuctionId' = nextAuctionId + 1
               /\ nextNotifId' = nextNotifId + Len(ns)
               /\ reqs' = [reqs EXCEPT ![r] =
                     AfterCommit([base EXCEPT !.auction = auction],
                                 pending, 201)]
               /\ deliveries' = IF Inline THEN deliveries
                                ELSE StartThreads(pending)
    /\ UNCHANGED <<extensions, now, config, users, bids, devices, nextBidId, script,
                   jwts, audit_logs>>

(* --------------------------- update_auction --------------------------- *)
\* update_auction, whole handler.  Every assignment before an abort is
\* discarded with the session.
UpdateAuction(r, u, a, data) ==
    /\ reqs[r].pc = "done"
    /\ LET base == [IdleReq EXCEPT !.op = "update_auction", !.user = u,
                                   !.auction_id = a,
                                   !.raw = data.min_price,
                                   !.checked_at = now, !.json = <<data>>]
           old == auctions[a]
           titled == IF data.title = NoKey THEN old
                     ELSE [old EXCEPT !.title = data.title]
           priced == IF data.min_price.kind = "absent" THEN titled
                     ELSE [titled EXCEPT
                             !.min_price = _parse_price(data.min_price)]
           failure ==
               IF ~is_active(u) THEN 403
               ELSE IF a \notin DOMAIN auctions THEN 404
               ELSE IF users[u].role \notin {ADMIN, SELLER} THEN 403
               ELSE IF users[u].role = SELLER /\ old.seller_id # u THEN 403
               ELSE IF data.title # NoKey /\ SanitizeFails(data.title)
               THEN 400
               ELSE IF data.min_price.kind # "absent"
                       /\ ParsePriceFailure(data.min_price) # 0
               THEN ParsePriceFailure(data.min_price)
               ELSE IF data.title = NoKey /\ data.min_price.kind = "absent"
               THEN 400
               ELSE 0
       IN IF failure # 0
          THEN /\ reqs' = [reqs EXCEPT ![r] = Respond(base, failure, "")]
               /\ UNCHANGED auctions
          ELSE /\ auctions' = [auctions EXCEPT ![a] = priced]
               /\ reqs' = [reqs EXCEPT ![r] =
                     Respond([base EXCEPT !.auction = priced], 200, "")]
    /\ UNCHANGED <<extensions, now, config, users, bids, notifications, devices,
                   nextAuctionId, nextBidId, nextNotifId, script,
                   deliveries,
                   jwts, audit_logs>>

(* --------------------------- delete_auction --------------------------- *)
\* user.role == UserRole.SELLER and auction.seller_id != user.id
OtherSellerIgnored(u, auction) == FALSE

OtherSeller(u, auction) ==
    users[u].role = SELLER /\ auction.seller_id # u

\* delete_auction up to the checks: get_current_user, the auction with its
\* bids (joinedload), role and ownership
DeleteAuctionLoad(r, u, a) ==
    /\ reqs[r].pc = "done"
    /\ LET base == [IdleReq EXCEPT !.op = "delete_auction", !.user = u,
                                   !.auction_id = a, !.checked_at = now]
           found == [base EXCEPT !.auction = auctions[a],
                                 !.loaded = {b \in bids : b.auction_id = a}]
       IN reqs' = [reqs EXCEPT ![r] =
            IF ~is_active(u)
            THEN Respond(base, 403, "User account is suspended")
            ELSE IF a \notin DOMAIN auctions
            THEN Respond(base, 404, "Auction not found")
            ELSE IF users[u].role \notin {ADMIN, SELLER}
            THEN Respond(found, 403, "Insufficient permissions")
            ELSE IF OtherSeller(u, auctions[a])
            THEN Respond(found, 403, "Cannot delete another seller's auction")
            ELSE [found EXCEPT !.pc = "delete"]]
    /\ UNCHANGED <<extensions, now, config, users, auctions, bids, notifications,
                   devices, nextAuctionId, nextBidId, nextNotifId, script,
                   deliveries,
                   jwts, audit_logs>>

\* a bid row that still points at the auction when its DELETE runs
DeleteRestrictedByAnyBid(r) ==
    \E b \in bids : b.auction_id = reqs[r].auction_id

DeleteRestricted(r) ==
    /\ ForeignKeysEnforced
    /\ \E b \in bids \ reqs[r].loaded : b.auction_id = reqs[r].auction_id

\* a bid INSERT of an open transaction holds the auction row
DeleteBlocked(r) ==
    /\ ForeignKeysEnforced
    /\ \E r2 \in ReqIds \ {r} :
          /\ reqs[r2].op = "place_bid"
          /\ reqs[r2].pc = "commit"
          /\ reqs[r2].bid.auction_id = reqs[r].auction_id

\* db.session.delete(bid) for each loaded bid, db.session.delete(auction),
\* db.session.commit(): the DELETEs of the loaded rows by primary key, the
\* DELETE of the auction, COMMIT
DeleteAuctionCommit(r) ==
    /\ reqs[r].op = "delete_auction"
    /\ reqs[r].pc = "delete"
    /\ ~DeleteBlocked(r)
    /\ LET req == reqs[r]
       IN IF DeleteRestricted(r)
          THEN /\ reqs' = [reqs EXCEPT ![r] =
                             Respond(req, 500, "Internal Server Error")]
               /\ UNCHANGED <<auctions, bids>>
          ELSE /\ bids' = bids \ req.loaded
               /\ auctions' = [x \in DOMAIN auctions \ {req.auction_id} |->
                                 auctions[x]]
               /\ reqs' = [reqs EXCEPT ![r] = Respond(req, 204, "")]
    /\ UNCHANGED <<extensions, now, config, users, notifications, devices,
                   nextAuctionId, nextBidId, nextNotifId, script,
                   deliveries,
                   jwts, audit_logs>>

(* ----------------------------- get_auction ---------------------------- *)
\* serialize_auction_preview, for the list `loaded` that auction.bids holds;
\* best_bid is <<>> for null
serialize_auction_preview(auction, loaded) ==
    [id |-> auction.id,
     title |-> auction.title,
     min_price |-> ToFloat(auction.min_price),
     status |-> auction.status,
     start_at |-> auction.start_at,
     end_at |-> auction.end_at,
     best_bid |-> IF Len(loaded) > 0 THEN <<serialize_bid(loaded[1])>>
                  ELSE <<>>]

\* get_auction, whole handler (the listings serialize each auction the same
\* way)
GetAuction(r, a) ==
    /\ reqs[r].pc = "done"
    /\ LET base == [IdleReq EXCEPT !.op = "get_auction", !.auction_id = a]
       IN IF a \notin DOMAIN auctions
          THEN reqs' = [reqs EXCEPT ![r] =
                          Respond(base, 404, "Auction not found")]
          ELSE \E loaded \in AuctionBids(a) :
                 reqs' = [reqs EXCEPT ![r] =
                    [Respond(base, 200, "") EXCEPT !.body =
                        <<serialize_auction_preview(auctions[a], loaded)>>]]
    /\ UNCHANGED <<extensions, now, config, users, auctions, bids, notifications,
                   devices, nextAuctionId, nextBidId, nextNotifId, script,
                   deliveries,
                   jwts, audit_logs>>

(* ------------------------------ init_app ------------------------------ *)
\* push_delivery.init_app(app), as create_app calls it for each app instance
\* it builds and as a caller may repeat it on an app: the guard reads the
\* app's own extensions, event.listen attaches to the shared Notification
\* class and db.session
InitApp(app) ==
    /\ extensions' = IF extensions[app] THEN extensions
                     ELSE [extensions EXCEPT ![app] = TRUE]
    /\ UNCHANGED <<now, config, users, auctions, bids, notifications,
                   devices, nextAuctionId, nextBidId, nextNotifId, reqs,
                   script, deliveries, jwts, audit_logs>>

(* -------------------------- register_device --------------------------- *)
\* register_device: insert the token or re-assign it to the caller
RegisterDevice(u, token) ==
    /\ is_active(u)
    /\ devices' = IF token \in DOMAIN devices
                  THEN [devices EXCEPT ![token] = u]
                  ELSE devices @@ (token :> u)
    /\ UNCHANGED <<extensions, now, config, users, auctions, bids, notifications,
                   nextAuctionId, nextBidId, nextNotifId, reqs, script,
                   deliveries,
                   jwts, audit_logs>>

(* ----------------- a session that outlives a transaction --------------- *)
\* db.session.add(Notification(...)); db.session.flush(): the INSERT runs
\* _collect_notification, the row stays uncommitted
ScriptInsert(u, type) ==
    /\ script.todo = <<>>
    /\ script.inserted < MaxScriptRows
    /\ LET n == [id |-> nextNotifId, user_id |-> u, type |-> type,
                 payload |-> [auction_id |-> 1]]
       IN script' = [script EXCEPT
                       !.rows = @ \cup {n},
                       !.inserted = @ + 1,
                       !.pending = @ \o _collect_notification(<<n>>)]
    /\ nextNotifId' = nextNotifId + 1
    /\ UNCHANGED <<extensions, now, config, users, auctions, bids, notifications,
                   devices, nextAuctionId, nextBidId, reqs, deliveries,
                   jwts, audit_logs>>

\* _after_commit: session.info.pop(_PENDING_KEY, []) and the dispatch loop
PopOnCommit(pending) == <<>>

\* _after_rollback: session.info.pop(_PENDING_KEY, None)
PopOnRollback(pending) == <<>>

\* db.session.commit() on that session
ScriptCommit ==
    /\ script.todo = <<>>
    /\ notifications' = notifications \cup script.rows
    /\ script' = [script EXCEPT
                    !.rows = {},
                    !.pending = PopOnCommit(script.pending),
                    !.todo = IF Inline /\ ~config.DISABLE_PUSH_DELIVERY
                             THEN script.pending ELSE <<>>]
    /\ deliveries' = IF Inline THEN deliveries
                     ELSE StartThreads(script.pending)
    /\ UNCHANGED <<extensions, now, config, users, auctions, bids, devices,
                   nextAuctionId, nextBidId, nextNotifId, reqs,
                   jwts, audit_logs>>

\* db.session.rollback() on that session
ScriptRollback ==
    /\ script.todo = <<>>
    /\ script.rows # {}
    /\ script' = [script EXCEPT !.rows = {},
                                !.pending = PopOnRollback(script.pending)]
    /\ UNCHANGED <<extensions, now, config, users, auctions, bids, notifications,
                   devices, nextAuctionId, nextBidId, nextNotifId, reqs,
                   deliveries,
                   jwts, audit_logs>>

\* one pass of the loop in _after_commit, inline mode, inside that commit()
ScriptInlineDeliver(render_ok, expo) ==
    /\ script.todo # <<>>
    /\ LET d == Head(script.todo)
           st == deliver_notification(d, render_ok, expo)
       IN /\ deliveries' = Append(deliveries,
                                 [data |-> d, inline |-> TRUE, state |-> st])
          /\ script' = [script EXCEPT
                          !.todo = IF st = "crashed" THEN <<>> ELSE Tail(@)]
    /\ UNCHANGED <<extensions, now, config, users, auctions, bids, notifications,
                   devices, nextAuctionId, nextBidId, nextNotifId, reqs,
                   jwts, audit_logs>>

\* deliver_notification(notification.id) called by that session: the id
\* path looks the row up (the session sees its own uncommitted rows) and
\* returns when there is none; otherwise the tokens are those of the
\* Device rows at the call
DeliverById(id, render_ok, expo) ==
    /\ script.todo = <<>>
    /\ Len(script.calls) < MaxScriptRows
    /\ LET found == {n \in notifications \cup script.rows : n.id = id}
           st == IF found = {} THEN "skipped"
                 ELSE LET n == CHOOSE n \in found : TRUE
                      IN deliver_notification(
                             NotificationData(n, UserTokens(n.user_id)),
                             render_ok, expo)
       IN script' = [script EXCEPT
                       !.calls = Append(@, [id |-> id, state |-> st])]
    /\ UNCHANGED <<extensions, now, config, users, auctions, bids,
                   notifications, devices, nextAuctionId, nextBidId,
                   nextNotifId, reqs, deliveries, jwts, audit_logs>>

\* a committed notification row is removed from the table by another client
\* of the store (the application itself has no DELETE for notifications):
\* the case `db_notification is None` of deliver_notification
RowDeleted(id) ==
    /\ \E n \in notifications : n.id = id
    /\ notifications' = {n \in notifications : n.id # id}
    /\ UNCHANGED <<extensions, now, config, users, auctions, bids, devices,
                   nextAuctionId, nextBidId, nextNotifId, reqs, script,
                   deliveries, jwts, audit_logs>>

(* --------------------------- specifications --------------------------- *)
AuctionIds == 1..MaxAuctions

(* Spec: bid placement by concurrent requests against the stored auction,  *)
(* whatever its status, while the clock runs.                              *)
Init == InitWith({TRUE}, AuctionStatus, {}, {SQLITE})

Next ==
    \/ Tick
    \/ \E r \in ReqIds, u \in {"buyer1", "buyer2"}, a \in DOMAIN auctions,
          raw \in {Num(1000)} : PlaceBidLoad(r, u, a, raw)
    \/ \E r \in ReqIds : PlaceBidCount(r)
    \/ \E r \in ReqIds : PlaceBidFlush(r)
    \/ \E r \in ReqIds, fault \in BOOLEAN : PlaceBidCommit(r, fault)

Spec == Init /\ [][Next]_vars

(* SpecSeq: one client at a time creates, edits and reads auctions and     *)
(* bids on the stored one; the second buyer may have been suspended by an  *)
(* admin.                                                                  *)
CreatePayloads ==
    {[title |-> "t2", min_price |-> Num(1500), carte_grise |-> TRUE]}

UpdatePayloads ==
    {[title |-> NoKey, min_price |-> Num(3000)]}

BidAmounts == {Num(1000), Num(2000)}

InitSeq == InitWith({TRUE}, {ACTIVE}, {"buyer2"}, {SQLITE})

NextSeq ==
    \/ \E u \in {"seller2", "buyer1"}, data \in CreatePayloads :
          CreateAuction(1, u, data, FALSE)
    \/ \E a \in DOMAIN auctions, data \in UpdatePayloads :
          UpdateAuction(1, "seller1", a, data)
    \/ \E a \in DOMAIN auctions : GetAuction(1, a)
    \/ \E u \in {"buyer1", "buyer2"}, raw \in BidAmounts :
          PlaceBidLoad(1, u, SeedAuction(ACTIVE).id, raw)
    \/ PlaceBidCount(1)
    \/ PlaceBidFlush(1)
    \/ PlaceBidCommit(1, FALSE)

SpecSeq == InitSeq /\ [][NextSeq]_vars

(* SpecAmount: one client at a time bids on the stored auction, and on ids *)
(* no auction has, with every kind of "amount" value.                      *)
RawAmounts ==
    {Missing, Text, NaN} \cup {Num(m) : m \in {-5, -4, 0, 4, 5, 1004, 1005}}

InitAmount == InitWith({TRUE}, {ACTIVE}, {}, {SQLITE})

NextAmount ==
    \/ \E u \in {"buyer1", "buyer2"}, a \in AuctionIds, raw \in RawAmounts :
          PlaceBidLoad(1, u, a, raw)
    \/ PlaceBidCount(1)
    \/ PlaceBidFlush(1)
    \/ PlaceBidCommit(1, FALSE)

SpecAmount == InitAmount /\ [][NextAmount]_vars

(* SpecPush: bids by one client at a time under either delivery mode, with every     *)
(* behaviour of the push transport and of the lookups made while           *)
(* rendering.                                                              *)
InitPush == InitWith(BOOLEAN, {ACTIVE}, {}, {SQLITE})

NextPush ==
    \/ \E u \in {"buyer1", "buyer2"} :
          PlaceBidLoad(1, u, SeedAuction(ACTIVE).id, Num(2000))
    \/ PlaceBidCount(1)
    \/ PlaceBidFlush(1)
    \/ \E fault \in BOOLEAN : PlaceBidCommit(1, fault)
    \/ \E render_ok \in BOOLEAN, expo \in ExpoOutcomes :
          InlineDeliver(1, render_ok, expo)
    \/ \E i \in DOMAIN deliveries, render_ok \in BOOLEAN,
          expo \in ExpoOutcomes : WorkerDeliver(i, render_ok, expo)

SpecPush == InitPush /\ [][NextPush]_vars

(* SpecFail: bids and new auctions by one client at a time while the clock *)
(* runs, with requests that fail a validation, permission, state or quota *)
(* check, persistence faults at commit, and deliveries whose rendering    *)
(* fails after the commit.                                                *)
\* request bodies of POST /auctions that fail validation: a blank title, a
\* price that is not numeric, no carte grise image
BadCreatePayloads ==
    {[title |-> Blank, min_price |-> Num(1500), carte_grise |-> TRUE],
     [title |-> "t2", min_price |-> Text, carte_grise |-> TRUE],
     [title |-> "t2", min_price |-> Num(1500), carte_grise |-> FALSE]}

InitFail == InitWith(BOOLEAN, {ACTIVE}, {}, {SQLITE})

NextFail ==
    \/ Tick
    \/ \E raw \in {Num(2000), Text} :
          PlaceBidLoad(1, "buyer1", SeedAuction(ACTIVE).id, raw)
    \/ PlaceBidCount(1)
    \/ PlaceBidFlush(1)
    \/ \E fault \in BOOLEAN : PlaceBidCommit(1, fault)
    \/ \E u \in {"seller2", "buyer1"},
          data \in CreatePayloads \cup BadCreatePayloads, fault \in BOOLEAN :
          CreateAuction(1, u, data, fault)
    \/ \E render_ok \in BOOLEAN : InlineDeliver(1, render_ok, "ok")

SpecFail == InitFail /\ [][NextFail]_vars

(* SpecSession: one session inserts notification rows directly and commits *)
(* or rolls back, several times over, under either delivery mode.          *)
InitSession == InitWith(BOOLEAN, {ACTIVE}, {}, {SQLITE})

NextSession ==
    \/ \E u \in {"seller1", "buyer2"}, type \in NotificationType :
          ScriptInsert(u, type)
    \/ ScriptCommit
    \/ ScriptRollback
    \/ \E render_ok \in BOOLEAN, expo \in ExpoOutcomes :
          ScriptInlineDeliver(render_ok, expo)
    \/ \E i \in DOMAIN deliveries, render_ok \in BOOLEAN,
          expo \in ExpoOutcomes : WorkerDeliver(i, render_ok, expo)

SpecSession == InitSession /\ [][NextSession]_vars

(* SpecApps: the session of SpecSession in a process where create_app     *)
(* builds further app instances and init_app is repeated.                  *)
InitApps == InitWith(BOOLEAN, {ACTIVE}, {}, {SQLITE})

NextApps ==
    \/ \E app \in AppIds : InitApp(app)
    \/ \E u \in {"seller1", "buyer2"} : ScriptInsert(u, RESULT)
    \/ ScriptCommit
    \/ ScriptRollback
    \/ \E render_ok \in BOOLEAN : ScriptInlineDeliver(render_ok, "ok")
    \/ \E i \in DOMAIN deliveries, render_ok \in BOOLEAN :
          WorkerDeliver(i, render_ok, "ok")

SpecApps == InitApps /\ [][NextApps]_vars

(* SpecTokens: the session of SpecSession while devices are registered or  *)
(* re-assigned, rows are removed from the notifications table and          *)
(* deliver_notification is also called with a row id.                      *)
NotificationIds == 1..MaxScriptRows

InitTokens == InitWith(BOOLEAN, {ACTIVE}, {}, {SQLITE})

NextTokens ==
    \/ \E u \in {"seller1", "buyer2"} : ScriptInsert(u, RESULT)
    \/ \E u \in {"seller1", "buyer2"} : RegisterDevice(u, "tokA")
    \/ ScriptCommit
    \/ ScriptRollback
    \/ \E render_ok \in BOOLEAN : ScriptInlineDeliver(render_ok, "ok")
    \/ \E i \in DOMAIN deliveries, render_ok \in BOOLEAN :
          WorkerDeliver(i, render_ok, "ok")
    \/ \E id \in NotificationIds : DeliverById(id, TRUE, "ok")
    \/ \E id \in NotificationIds : RowDeleted(id)

SpecTokens == InitTokens /\ [][NextTokens]_vars

(* SpecDelete: delete_auction against place_bid *)
\* One ACTIVE auction on either store; its seller deletes it while a buyer
\* bids on it, on any worker slot.
InitDelete == InitWith({TRUE}, {ACTIVE}, {}, {SQLITE, POSTGRESQL})

NextDelete ==
    \/ \E r \in ReqIds :
          DeleteAuctionLoad(r, "seller1", SeedAuction(ACTIVE).id)
    \/ \E r \in ReqIds : DeleteAuctionCommit(r)
    \/ \E r \in ReqIds :
          PlaceBidLoad(r, "buyer1", SeedAuction(ACTIVE).id, Num(1000))
    \/ \E r \in ReqIds : PlaceBidCount(r)
    \/ \E r \in ReqIds : PlaceBidFlush(r)
    \/ \E r \in ReqIds : PlaceBidCommit(r, FALSE)

SpecDelete == InitDelete /\ [][NextDelete]_vars

(* SpecOwner: one client at a time edits, deletes and bids on the seeded   *)
(* auction, as its seller, another seller, a buyer or the admin.          *)
OwnerCallers == {"admin", "seller1", "seller2", "buyer1"}

InitOwner == InitWith({TRUE}, {ACTIVE}, {}, {SQLITE, POSTGRESQL})

NextOwner ==
    \/ \E u \in OwnerCallers, data \in UpdatePayloads :
          UpdateAuction(1, u, SeedAuction(ACTIVE).id, data)
    \/ \E u \in OwnerCallers :
          DeleteAuctionLoad(1, u, SeedAuction(ACTIVE).id)
    \/ DeleteAuctionCommit(1)
    \/ \E u \in {"buyer1", "buyer2"}, raw \in BidAmounts :
          PlaceBidLoad(1, u, SeedAuction(ACTIVE).id, raw)
    \/ PlaceBidCount(1)
    \/ PlaceBidFlush(1)
    \/ PlaceBidCommit(1, FALSE)

SpecOwner == InitOwner /\ [][NextOwner]_vars

(* SpecLifecycle: activate() and close() called on stored auctions of any  *)
(* status while the clock advances, auctions are created and edited and   *)
(* bids placed.                                                           *)
StartTimes == {NoTime, 0}

\* request bodies of PATCH /auctions/<id>: a title, a price, a title with a
\* price that is not numeric, no field at all, a blank title with a price
EditPayloads ==
    {[title |-> "t9", min_price |-> Absent],
     [title |-> NoKey, min_price |-> Num(3000)],
     [title |-> "t9", min_price |-> Text],
     [title |-> NoKey, min_price |-> Absent],
     [title |-> Blank, min_price |-> Num(3000)]}

InitLifecycle == InitWith({TRUE}, AuctionStatus, {}, {SQLITE})

NextLifecycle ==
    \/ Tick
    \/ \E a \in DOMAIN auctions, start_time \in StartTimes :
          ActivateCall(1, a, start_time)
    \/ \E a \in DOMAIN auctions : CloseCall(1, a)
    \/ \E data \in CreatePayloads : CreateAuction(1, "seller2", data, FALSE)
    \/ \E a \in DOMAIN auctions, data \in EditPayloads :
          UpdateAuction(1, "seller1", a, data)
    \/ PlaceBidLoad(1, "buyer1", SeedAuction(ACTIVE).id, Num(1000))
    \/ PlaceBidCount(1)
    \/ PlaceBidFlush(1)
    \/ PlaceBidCommit(1, FALSE)

SpecLifecycle == InitLifecycle /\ [][NextLifecycle]_vars

(* SpecLogin: visitors register and log in, one request at a time.        *)
Ann == <<"a", "n", "n">>
Bob == <<"b", "o", "b">>
AnnMail == <<"A", "n", "n", "@", "X", ".", "i", "o">>
BobMail == <<"b", "o", "b", "@", "x", ".", "i", "o">>
AnnPassword == <<"a", "n", "n", "-", "p", "a", "s", "s", "w", "o", "r", "d">>
BobPassword == <<"b", "o", "b", "-", "p", "a", "s", "s", "w", "o", "r", "d">>

\* request bodies of POST /auth/register: Ann with a mixed-case email, Bob
\* with a plain email, Bob with an email that has no @ and reads like Ann's
\* username, and Bob asking for the seller role
RegisterPayloads ==
    {[username |-> JsonStr(Ann), email |-> JsonStr(AnnMail),
      password |-> JsonStr(AnnPassword), role |-> JsonAbsent],
     [username |-> JsonStr(Bob), email |-> JsonStr(BobMail),
      password |-> JsonStr(BobPassword), role |-> JsonStr(RoleText[BUYER])],
     [username |-> JsonStr(Bob), email |-> JsonStr(Ann),
      password |-> JsonStr(BobPassword), role |-> JsonAbsent],
     [username |-> JsonStr(Bob), email |-> JsonStr(BobMail),
      password |-> JsonStr(BobPassword), role |-> JsonStr(RoleText[SELLER])]}

\* request bodies of POST /auth/login
LoginPayloads ==
    {[usernameOrEmail |-> JsonStr(id), password |-> JsonStr(pw)] :
        id \in {Ann, <<" ">> \o Bob, AnnMail, lower(AnnMail)},
        pw \in {AnnPassword, BobPassword}}

InitLogin == InitWith({TRUE}, {ACTIVE}, {}, {SQLITE, POSTGRESQL})

NextLogin ==
    \/ \E data \in RegisterPayloads : RegisterUser(1, data)
    \/ \E data \in LoginPayloads : Login(1, data)

SpecLogin == InitLogin /\ [][NextLogin]_vars

(* SpecRoles: visitors register, the admin and a buyer call the admin     *)
(* user endpoints, and the operator runs the production set-up script.    *)
UpdateRolePayloads ==
    {[status |-> JsonAbsent, role |-> JsonStr(<<"S", "e", "l", "l", "e", "r">>)],
     [status |-> JsonAbsent, role |-> JsonStr(RoleText[BUYER])]}

CreateUserPayloads ==
    {[email |-> JsonStr(BobMail), username |-> JsonStr(Bob),
      role |-> JsonStr(RoleText[SELLER]), password |-> JsonStr(BobPassword)]}

InitRoles == InitWith({TRUE}, {ACTIVE}, {}, {SQLITE})

NextRoles ==
    \/ \E data \in RegisterPayloads : RegisterUser(1, data)
    \/ \E actor \in {"admin", "buyer1"}, target \in {"buyer1", NewUserIds[1]},
          data \in UpdateRolePayloads :
          AdminUpdateUser(1, actor, target, data)
    \/ \E actor \in {"admin", "buyer1"}, data \in CreateUserPayloads :
          AdminCreateUser(1, actor, data)
    \/ CreateOrUpdateAdmin(Ann, lower(AnnMail), AnnPassword)

SpecRoles == InitRoles /\ [][NextRoles]_vars

(* SpecSuspend: the admin suspends and re-activates accounts while the    *)
(* admin, a seller and a buyer keep calling the authenticated endpoints   *)
(* with the tokens they hold, one request at a time.                      *)
UpdateStatusPayloads ==
    {[status |-> JsonStr(StatusText[USER_SUSPENDED]), role |-> JsonAbsent],
     [status |-> JsonStr(StatusText[USER_ACTIVE]), role |-> JsonAbsent]}

InvitePayloads == {[email |-> JsonStr(BobMail), role |-> JsonAbsent]}

InitSuspend == InitWith({TRUE}, {ACTIVE}, {}, {SQLITE})

NextSuspend ==
    \/ \E target \in {"admin", "seller1", "buyer1"},
          data \in UpdateStatusPayloads :
          AdminUpdateUser(1, "admin", target, data)
    \/ \E data \in CreateUserPayloads : AdminCreateUser(1, "admin", data)
    \/ \E data \in InvitePayloads : InviteUser(1, "admin", data)
    \/ ResetPassword(1, "admin", "buyer1")
    \/ \E u \in {"admin", "buyer1"} : RefreshToken(1, u)
    \/ RegisterDevice("buyer1", "tokB")
    \/ \E data \in CreatePayloads : CreateAuction(1, "seller1", data, FALSE)
    \/ \E data \in UpdatePayloads :
          UpdateAuction(1, "seller1", SeedAuction(ACTIVE).id, data)
    \/ DeleteAuctionLoad(1, "seller1", SeedAuction(ACTIVE).id)
    \/ DeleteAuctionCommit(1)
    \/ PlaceBidLoad(1, "buyer1", SeedAuction(ACTIVE).id, Num(2000))
    \/ PlaceBidCount(1)
    \/ PlaceBidFlush(1)
    \/ PlaceBidCommit(1, FALSE)

SpecSuspend == InitSuspend /\ [][NextSuspend]_vars

(* ------------------------------ claims -------------------------------- *)
PlaceBidReqs == {r \in ReqIds : reqs[r].op = "place_bid"}

\* C1: a buyer never has more than 2 committed bids on one auction, under
\* any interleaving of place_bid requests, and a request that finds the
\* buyer at 2 bids is rejected with 400 "Bid limit reached for this auction".
C1_QuotaHolds ==
    /\ \A a \in AuctionIds, u \in UserIds : CountBids(a, u) <= 2
    /\ \A r \in PlaceBidReqs :
          reqs[r].existing_count >= 2 =>
              /\ reqs[r].pc = "done"
              /\ reqs[r].code = 400
              /\ reqs[r].detail = "Bid limit reached for this auction"
              /\ reqs[r].bid = NoBid

\* two requests of one buyer on one auction both counted 1 existing bid;
\* one committed the second bid, the other was refused by the store
C1_Witness ==
    \E r1, r2 \in PlaceBidReqs :
        /\ r1 # r2
        /\ reqs[r1].user = reqs[r2].user
        /\ reqs[r1].auction_id = reqs[r2].auction_id
        /\ reqs[r1].existing_count = 1 /\ reqs[r2].existing_count = 1
        /\ reqs[r1].pc = "done" /\ reqs[r1].code = 201
        /\ reqs[r2].pc = "done" /\ reqs[r2].code = 500
        /\ CountBids(reqs[r1].auction_id, reqs[r1].user) = 2

\* the spec's isAcceptingBids(auction, now)
isAcceptingBids(auction, t) ==
    auction.status = ACTIVE /\ (auction.end_at = NoTime \/ auction.end_at > t)

\* C2: place_bid goes on to persist a bid only for an auction it read as
\* ACTIVE with end_at unset or strictly later than the time of the check;
\* otherwise (DRAFT, CLOSED, CANCELLED, end_at <= now) it answers 400, holds
\* no bid, and the step that rejects changes neither bids nor notifications.
C2_OnlyAcceptingAuctions ==
    /\ [](\A r \in PlaceBidReqs :
            reqs[r].auction # NoAuction =>
              IF isAcceptingBids(reqs[r].auction, reqs[r].checked_at)
              THEN TRUE
              ELSE /\ reqs[r].pc = "done"
                   /\ reqs[r].code = 400
                   /\ reqs[r].bid = NoBid)
    /\ [][\A r \in ReqIds :
            (reqs'[r] # reqs[r] /\ reqs'[r].op = "place_bid"
             /\ reqs'[r].pc = "done" /\ reqs'[r].code # 201)
            => (bids' = bids /\ notifications' = notifications)]_vars
    /\ [][bids' # bids =>
            \E r \in PlaceBidReqs :
                /\ isAcceptingBids(reqs[r].auction, reqs[r].checked_at)
                /\ bids' = bids \cup {reqs'[r].bid}]_vars

\* a bid refused exactly at end_at, and one refused on each other status
C2_Witness ==
    /\ \E r \in PlaceBidReqs :
          /\ reqs[r].auction.status = ACTIVE
          /\ reqs[r].auction.end_at = reqs[r].checked_at
          /\ reqs[r].code = 400
    /\ bids # {}

\* C3: every committed bid has exactly one RESULT notification, addressed to
\* the seller of its auction and carrying its snapshot, and every RESULT
\* notification belongs to a committed bid.
C3_OneResultPerBid ==
    /\ \A b \in bids :
          LET ns == {n \in notifications :
                       n.type = RESULT /\ n.payload.latest_bid.id = b.id}
          IN /\ Cardinality(ns) = 1
             /\ \A n \in ns :
                   /\ n.user_id = auctions[b.auction_id].seller_id
                   /\ n.payload.auction_id = b.auction_id
                   /\ n.payload.latest_bid = serialize_bid(b)
    /\ \A n \in notifications :
          n.type = RESULT => \E b \in bids : b.id = n.payload.latest_bid.id
    /\ Cardinality({n \in notifications : n.type = RESULT})
          = Cardinality(bids)

C3_Witness ==
    /\ Cardinality(bids) >= 2
    /\ \E r \in PlaceBidReqs : reqs[r].pc = "done" /\ reqs[r].code = 201

\* C4: a create_auction that commits adds the auction and, in the same
\* step, exactly one NEW_AUCTION notification for every user who is a BUYER
\* and ACTIVE at that time, none for anybody else; no NEW_AUCTION
\* notification exists apart from a committed auction.
C4_OnePerActiveBuyer ==
    /\ [][nextAuctionId' # nextAuctionId =>
            LET a == nextAuctionId
                added == notifications' \ notifications
            IN /\ a \notin DOMAIN auctions
               /\ a \in DOMAIN auctions'
               /\ \A n \in added :
                     n.type = NEW_AUCTION /\ n.payload.auction_id = a
               /\ \A u \in UserIds :
                     Cardinality({n \in added : n.user_id = u})
                        = IF users[u].role = BUYER
                             /\ users[u].status = USER_ACTIVE
                          THEN 1 ELSE 0]_vars
    /\ [][auctions' = auctions =>
            \A n \in notifications' \ notifications :
                n.type # NEW_AUCTION]_vars
    /\ [](\A n \in notifications :
            n.type = NEW_AUCTION => n.payload.auction_id \in DOMAIN auctions)

\* an auction was created while one of the two buyers was suspended
C4_Witness ==
    /\ users["buyer2"].status = USER_SUSPENDED
    /\ \E r \in ReqIds :
          /\ reqs[r].op = "create_auction"
          /\ reqs[r].code = 201
          /\ reqs[r].auction.id \in DOMAIN auctions
          /\ \E n \in notifications :
                /\ n.type = NEW_AUCTION
                /\ n.user_id = "buyer1"
                /\ n.payload.auction_id = reqs[r].auction.id

BidsOf(a) == {b \in bids : b.auction_id = a}

\* C8: whatever list the bids relationship loads, the best_bid of an
\* auction is null exactly when the auction has no committed bid, and is
\* otherwise a committed bid of that auction that no other bid of the
\* auction exceeds in amount; a get_auction response reports just that.
C8_BestBidIsMax ==
    /\ [](\A a \in DOMAIN auctions :
            /\ AuctionBids(a) # {}
            /\ \A loaded \in AuctionBids(a) :
                  LET best == serialize_auction_preview(auctions[a],
                                                        loaded).best_bid
                  IN /\ (best = <<>>) <=> (BidsOf(a) = {})
                     /\ best # <<>> =>
                           \E b \in BidsOf(a) :
                               /\ best[1] = serialize_bid(b)
                               /\ \A b2 \in BidsOf(a) :
                                     b2.amount <= b.amount)
    /\ [][\A r \in ReqIds :
            (reqs'[r] # reqs[r] /\ reqs'[r].op = "get_auction"
             /\ reqs'[r].code = 200)
            => LET best == reqs'[r].body[1].best_bid
                   mine == BidsOf(reqs'[r].auction_id)
               IN /\ (best = <<>>) <=> (mine = {})
                  /\ best # <<>> =>
                        \E b \in mine :
                            /\ best[1] = serialize_bid(b)
                            /\ \A b2 \in mine : b2.amount <= b.amount]_vars

\* a response whose best_bid is neither the latest nor the earliest bid
\* of an auction with three bids of two amounts
C8_Witness ==
    \E r \in ReqIds :
        /\ reqs[r].op = "get_auction"
        /\ reqs[r].code = 200
        /\ reqs[r].body[1].best_bid # <<>>
        /\ \E b1, b2, b3 \in BidsOf(reqs[r].auction_id) :
              /\ b1.id < b2.id /\ b2.id < b3.id
              /\ b1.amount < b2.amount /\ b3.amount < b2.amount
              /\ reqs[r].body[1].best_bid[1].id = b2.id

\* C9: every committed bid's amount is greater than or equal to the minimum
\* price of its auction.
C9_BidsMeetMinPrice ==
    \A b \in bids : b.amount >= auctions[b.auction_id].min_price

\* cents is the number of hundredths nearest to milli thousandths, a tie
\* going up
RoundsHalfUpTo(milli, cents) ==
    10 * cents - 5 <= milli /\ milli < 10 * cents + 5

DispatchCount(id) ==
    Cardinality({i \in DOMAIN deliveries : deliveries[i].data.id = id})

\* no commit() is still running its _after_commit listener
NoCommitRunning ==
    /\ \A r \in ReqIds : reqs[r].pc # "dispatch"
    /\ script.todo = <<>>

\* C5: delivery is dispatched exactly once for every notification row whose
\* transaction committed, never for a row that was rolled back or is not
\* committed yet, and the pending list holds only rows of the transaction
\* that is open.
C5_DispatchedExactlyOnce ==
    /\ \A i \in DOMAIN deliveries :
          \E n \in notifications : n.id = deliveries[i].data.id
    /\ \A n \in notifications : DispatchCount(n.id) <= 1
    /\ NoCommitRunning =>
          \A n \in notifications : DispatchCount(n.id) = 1
    /\ \A i \in DOMAIN script.pending :
          \E n \in script.rows : n.id = script.pending[i].id

\* the request's transaction is in the store
Committed(r) ==
    \/ reqs[r].op = "place_bid" /\ reqs[r].bid \in bids
    \/ reqs[r].op = "create_auction" /\ reqs[r].auction # NoAuction

\* C6: a delivery that fails does not reach the request that committed:
\* every request whose transaction committed answers 201, and no
\* notification is dispatched a second time.
C6_FailuresSwallowed ==
    /\ \A r \in ReqIds :
          (reqs[r].pc = "done" /\ Committed(r)) => reqs[r].code = 201
    /\ \A i, j \in DOMAIN deliveries :
          deliveries[i].data.id = deliveries[j].data.id => i = j

\* the notifications a request committed
NotificationsOf(r) ==
    {n \in notifications :
        \/ /\ reqs[r].op = "place_bid"
           /\ n.type = RESULT
           /\ n.payload.latest_bid.id = reqs[r].bid.id
        \/ /\ reqs[r].op = "create_auction"
           /\ n.type = NEW_AUCTION
           /\ n.payload.auction_id = reqs[r].auction.id}

\* C7: with PUSH_DELIVERY_USE_THREAD true no commit ever waits for a
\* delivery: no request and no session is inside the dispatch loop and no
\* delivery ran inline; with the flag false every delivery ran inline, none
\* is left running, and a request that answers 201 has had each of its
\* notifications delivered before it returned.
C7_ReturnsWithoutWaiting ==
    /\ config.PUSH_DELIVERY_USE_THREAD =>
          /\ NoCommitRunning
          /\ \A i \in DOMAIN deliveries : ~deliveries[i].inline
    /\ ~config.PUSH_DELIVERY_USE_THREAD =>
          /\ \A i \in DOMAIN deliveries :
                deliveries[i].inline /\ deliveries[i].state # "started"
          /\ \A r \in ReqIds :
                (reqs[r].pc = "done" /\ Committed(r) /\ reqs[r].code = 201)
                => \A n \in NotificationsOf(r) :
                      \E i \in DOMAIN deliveries :
                          deliveries[i].data.id = n.id

\* thread mode: the bid request has answered 201 while the delivery of its
\* notification, which has a recipient device, has not finished
C7_Witness ==
    /\ config.PUSH_DELIVERY_USE_THREAD
    /\ \E r \in ReqIds :
          /\ reqs[r].pc = "done" /\ reqs[r].code = 201 /\ Committed(r)
          /\ \E n \in NotificationsOf(r), i \in DOMAIN deliveries :
                /\ deliveries[i].data.id = n.id
                /\ deliveries[i].data.tokens # {}
                /\ deliveries[i].state = "started"

\* the highest amount among the bids S
MaxAmountOf(S) ==
    CHOOSE m \in {b.amount : b \in S} : \A b \in S : b.amount <= m

\* C11 (as amended): place_bid has no rejection that depends on the other
\* bids, and when a bid at or below the highest amount of its auction is
\* committed, every list the relationship may load afterwards starts with a
\* bid of that same highest amount; it starts with the very same earlier
\* bid when that bid alone had the highest amount and the new amount is
\* strictly below it.
C11_LowerBidKeepsBest ==
    /\ [](\A r \in PlaceBidReqs :
            (reqs[r].pc = "done" /\ reqs[r].code = 400
             /\ isAcceptingBids(reqs[r].auction, reqs[r].checked_at)
             /\ ~QuotaReached(reqs[r].existing_count))
            => (reqs[r].raw.kind # "num" \/ reqs[r].raw.milli < 5))
    /\ [][\A new \in bids' \ bids :
            LET prior == BidsOf(new.auction_id)
            IN (prior # {} /\ new.amount <= MaxAmountOf(prior)) =>
                  \A loaded \in AuctionBids(new.auction_id)' :
                      /\ loaded[1].amount = MaxAmountOf(prior)
                      /\ \A b \in prior :
                            (/\ new.amount < b.amount
                             /\ \A b2 \in prior \ {b} : b2.amount < b.amount)
                            => loaded[1] = b]_vars

\* a buyer's bid below the bid of another buyer has been answered 201 and
\* the earlier bid is still the first of every list
C11_Witness ==
    \E r \in PlaceBidReqs :
        /\ reqs[r].pc = "done" /\ reqs[r].code = 201
        /\ reqs[r].bid \in bids
        /\ \E b0 \in BidsOf(reqs[r].auction_id) :
              /\ b0.id < reqs[r].bid.id
              /\ b0.amount > reqs[r].bid.amount
              /\ b0.buyer_id # reqs[r].bid.buyer_id
              /\ \A loaded \in AuctionBids(reqs[r].auction_id) :
                    loaded[1] = b0

\* C11 (as stated): after a bid at or below the highest amount is committed
\* the best bid is still an earlier bid of the highest amount, amount and
\* buyer unchanged.
C11_BestBidderUnchanged ==
    [][\A new \in bids' \ bids :
          LET prior == BidsOf(new.auction_id)
          IN (prior # {} /\ new.amount <= MaxAmountOf(prior)) =>
                \A loaded \in AuctionBids(new.auction_id)' :
                    \E b \in prior :
                        /\ b.amount = MaxAmountOf(prior)
                        /\ loaded[1].amount = b.amount
                        /\ loaded[1].buyer_id = b.buyer_id]_vars

\* C12: in commit order the accepted amounts on one auction are strictly
\* increasing (bid ids are assigned in commit order).
C12_AmountsStrictlyIncreasing ==
    \A b1 \in bids : \A b2 \in bids :
        (b1.auction_id = b2.auction_id /\ b1.id < b2.id)
        => b1.amount < b2.amount

\* C13: no committed state holds a bid whose auction is gone: delete_auction
\* removes the auction together with every one of its bids.
C13_NoBidOutlivesItsAuction ==
    \A b \in bids : b.auction_id \in DOMAIN auctions

\* the request the single client of SpecOwner has just been answered, or
\* has just moved one step on
Stepped(op) == reqs'[1] # reqs[1] /\ reqs'[1].op = op

\* C14: bids never block the owner.  On an auction that has one or more
\* bids, update_auction by its seller with a valid price answers 200 and
\* stores the price; delete_auction by its seller passes its checks, and its
\* commit answers 204 and leaves neither the auction nor any of its bids.
C14_BidsNeverBlockOwner ==
    [][\A a \in DOMAIN auctions :
          (BidsOf(a) # {} /\ reqs'[1].auction_id = a
           /\ reqs'[1].user = auctions[a].seller_id)
          => /\ (Stepped("update_auction") /\ reqs'[1].raw.kind = "num"
                 /\ QuantizeHalfUp(reqs'[1].raw.milli) > 0)
                => /\ reqs'[1].code = 200
                   /\ auctions'[a].min_price =
                         QuantizeHalfUp(reqs'[1].raw.milli)
             /\ (Stepped("delete_auction") /\ reqs[1].pc = "done")
                => reqs'[1].pc = "delete"
             /\ (Stepped("delete_auction") /\ reqs[1].pc = "delete")
                => /\ reqs'[1].code = 204
                   /\ a \notin DOMAIN auctions'
                   /\ \A b \in bids' : b.auction_id # a]_vars

\* the seller has deleted an auction that had bids, after editing it
C14_Witness ==
    /\ reqs[1].op = "delete_auction"
    /\ reqs[1].code = 204
    /\ reqs[1].user = reqs[1].auction.seller_id
    /\ reqs[1].loaded # {}
    /\ reqs[1].auction.min_price # SeedAuction(ACTIVE).min_price
    /\ reqs[1].auction_id \notin DOMAIN auctions

\* the caller is an ADMIN or the SELLER who owns the auction
MayManage(u, auction) ==
    \/ users[u].role = ADMIN
    \/ users[u].role = SELLER /\ auction.seller_id = u

\* C19: update_auction and delete_auction change or remove an auction only
\* for an ADMIN or the SELLER who owns it; a BUYER, or a SELLER who is not
\* the owner, is answered 403 and the auction and its bids stay as they
\* were.
C19_OnlyOwnerOrAdminManages ==
    /\ [][((Stepped("update_auction") \/ Stepped("delete_auction"))
           /\ reqs[1].pc = "done"
           /\ reqs'[1].auction_id \in DOMAIN auctions
           /\ ~MayManage(reqs'[1].user, auctions[reqs'[1].auction_id]))
          => (/\ reqs'[1].pc = "done"
              /\ reqs'[1].code = 403
              /\ auctions' = auctions
              /\ bids' = bids)]_vars
    /\ [][(auctions' # auctions \/ ~(bids \subseteq bids'))
          => (/\ reqs'[1].op \in {"update_auction", "delete_auction"}
              /\ MayManage(reqs'[1].user, auctions[reqs'[1].auction_id]))]_vars

\* another seller's delete of an auction with bids has been refused, and the
\* auction and the bids are still there
C19_Witness ==
    /\ reqs[1].op = "delete_auction"
    /\ reqs[1].user = "seller2"
    /\ reqs[1].pc = "done"
    /\ reqs[1].code = 403
    /\ reqs[1].auction_id \in DOMAIN auctions
    /\ auctions[reqs[1].auction_id].seller_id = "seller1"
    /\ BidsOf(reqs[1].auction_id) # {}

\* C20: activate succeeds only on a DRAFT auction, which becomes ACTIVE with
\* a 24 hour window from the start time; on an auction of any other status
\* it raises and leaves status, start_at and end_at as they were.
C20_ActivateOnlyFromDraft ==
    [][\A a \in DOMAIN auctions :
          (Stepped("activate") /\ reqs'[1].auction_id = a)
          => IF auctions[a].status = DRAFT
             THEN /\ reqs'[1].detail = ""
                  /\ auctions'[a].status = ACTIVE
                  /\ auctions'[a].start_at # NoTime
                  /\ auctions'[a].end_at =
                        auctions'[a].start_at + ACTIVATION_HOURS
             ELSE /\ reqs'[1].detail = "Only draft auctions can be activated"
                  /\ auctions'[a].status = auctions[a].status
                  /\ auctions'[a].start_at = auctions[a].start_at
                  /\ auctions'[a].end_at = auctions[a].end_at]_vars

\* activate has raised on an ACTIVE auction, a day after its activation,
\* and the window written by that activation is still stored
C20_Witness ==
    /\ reqs[1].op = "activate"
    /\ reqs[1].detail = "Only draft auctions can be activated"
    /\ reqs[1].auction_id \in DOMAIN auctions
    /\ auctions[reqs[1].auction_id].status = ACTIVE
    /\ auctions[reqs[1].auction_id].start_at = 0
    /\ auctions[reqs[1].auction_id].end_at = ACTIVATION_HOURS
    /\ reqs[1].checked_at > 0

\* the login request that has just been answered
LoginAnswered == reqs[1].op = "login" /\ reqs[1].pc = "done"

LoginIdentifier == strip(reqs[1].json[1].usernameOrEmail.text)

LoginPassword == reqs[1].json[1].password.text

\* C17: a login whose identifier equals a user's email up to letter case
\* (and is nobody's username), with that user's password, answers 200 for
\* that user.
C17_EmailLoginIgnoresCase ==
    LoginAnswered =>
        \A u \in DOMAIN users :
            (/\ lower(LoginIdentifier) = lower(users[u].email)
             /\ LoginMatches(LoginIdentifier) \subseteq {u}
             /\ check_password_hash(users[u].password_hash, LoginPassword)
             /\ is_active(u))
            => (reqs[1].code = 200 /\ reqs[1].user = u)

\* C18: a login whose identifier is user A's username, with A's password,
\* answers 200 for A whatever the other rows hold.
C18_UsernameLoginFindsItsUser ==
    LoginAnswered =>
        \A a \in DOMAIN users :
            (/\ users[a].username = LoginIdentifier
             /\ check_password_hash(users[a].password_hash, LoginPassword)
             /\ is_active(a))
            => (reqs[1].code = 200 /\ reqs[1].user = a)

\* the role of u after a step is SELLER or ADMIN and was not its role before
Elevated(u) ==
    /\ users'[u].role # BUYER
    /\ u \in DOMAIN users => users[u].role # users'[u].role

\* the step is an admin user endpoint answering a caller whose token carries
\* the ADMIN role, about user u
ViaAdminEndpoint(u) ==
    /\ reqs'[1].op \in {"update_user", "create_user"}
    /\ reqs'[1].target = u
    /\ reqs'[1].code \in {200, 201}
    /\ jwts[reqs'[1].user].role = ADMIN

\* the step is the operator's set-up script making u an ADMIN
ViaSetupScript(u) == reqs' = reqs /\ users'[u].role = ADMIN

\* register_user answers a request that names a role other than "buyer"
RegisterNamesOtherRole ==
    /\ Stepped("register_user")
    /\ reqs'[1].json[1].role.kind = "str"
    /\ reqs'[1].json[1].role.text \notin {<<>>, RoleText[BUYER]}

\* C16 (as amended): a user added by register_user is a BUYER; a
\* registration that names another role is refused and adds no user; a role
\* becomes SELLER or ADMIN only through an admin user endpoint called with an
\* ADMIN token, or through the operator's set-up script, which makes ADMINs.
C16_ElevationIsAdministrative ==
    /\ [][\A u \in DOMAIN users' \ DOMAIN users :
            (reqs'[1].op = "register_user" /\ reqs'[1].target = u)
            => users'[u].role = BUYER]_vars
    /\ [][RegisterNamesOtherRole
          => (reqs'[1].code # 201 /\ users' = users)]_vars
    /\ [][\A u \in DOMAIN users' :
            Elevated(u) => (ViaAdminEndpoint(u) \/ ViaSetupScript(u))]_vars

\* a registration asking for the seller role has been refused, and a user
\* who registered has been made a seller by the admin
C16_Witness ==
    /\ reqs[1].op = "register_user"
    /\ reqs[1].code = 403
    /\ reqs[1].json[1].role.text = RoleText[SELLER]
    /\ \E u \in DOMAIN users \ UserIds : users[u].role = SELLER
    /\ \E i \in DOMAIN audit_logs :
          audit_logs[i].action = "update_user_role"

\* C16 (as stated): a role becomes SELLER or ADMIN only through an endpoint
\* restricted to callers with the ADMIN role.
C16_ElevationOnlyByEndpoint ==
    [][\A u \in DOMAIN users' : Elevated(u) => ViaAdminEndpoint(u)]_vars

\* a step that starts a request of a caller whose stored status is SUSPENDED
SuspendedCallerSteps ==
    /\ reqs[1].pc = "done"
    /\ reqs'[1] # reqs[1]
    /\ reqs'[1].user \in DOMAIN users
    /\ users[reqs'[1].user].status = USER_SUSPENDED

\* C15: every request of a suspended user to an authenticated endpoint is
\* rejected at once and changes no table and no token.
C15_SuspendedUserRejected ==
    [][SuspendedCallerSteps
       => (/\ reqs'[1].pc = "done"
           /\ reqs'[1].code \in {401, 403}
           /\ UNCHANGED <<users, auctions, bids, notifications, devices,
                          audit_logs, jwts>>)]_vars

\* C21: an auction that is ACTIVE, or that carries a start time, has both
\* ends of its window set, 24 hours apart; an auction added by
\* create_auction is ACTIVE from now; and the window of a stored auction
\* changes only when activate() succeeds on it as a DRAFT: update_auction,
\* place_bid and close() leave start_at and end_at alone.
C21_WindowFixedAtActivation ==
    /\ [](\A a \in DOMAIN auctions :
            (auctions[a].status = ACTIVE \/ auctions[a].start_at # NoTime
             \/ auctions[a].end_at # NoTime)
            => /\ auctions[a].start_at # NoTime
               /\ auctions[a].end_at =
                     auctions[a].start_at + ACTIVATION_HOURS)
    /\ [][\A a \in DOMAIN auctions' \ DOMAIN auctions :
            /\ reqs'[1].op = "create_auction"
            /\ auctions'[a].status = ACTIVE
            /\ auctions'[a].start_at = now]_vars
    /\ [][\A a \in DOMAIN auctions \cap DOMAIN auctions' :
            (\/ auctions'[a].start_at # auctions[a].start_at
             \/ auctions'[a].end_at # auctions[a].end_at)
            => /\ Stepped("activate")
               /\ reqs'[1].auction_id = a
               /\ auctions[a].status = DRAFT]_vars
    /\ [][(Stepped("update_auction") \/ Stepped("place_bid")
           \/ Stepped("close"))
          => \A a \in DOMAIN auctions :
                /\ a \in DOMAIN auctions'
                /\ auctions'[a].start_at = auctions[a].start_at
                /\ auctions'[a].end_at = auctions[a].end_at]_vars

\* an auction activated a day after the start has been renamed and then
\* closed, and still carries the window of its activation
C21_Witness ==
    /\ reqs[1].op = "close"
    /\ \E a \in DOMAIN auctions :
          /\ reqs[1].auction_id = a
          /\ auctions[a].status = CLOSED
          /\ auctions[a].title = "t9"
          /\ auctions[a].start_at = ACTIVATION_HOURS
          /\ auctions[a].end_at = ACTIVATION_HOURS + ACTIVATION_HOURS
    /\ \E a \in DOMAIN auctions :
          auctions[a].seller_id = "seller2" /\ auctions[a].status = ACTIVE

\* C22: the status of a stored auction never goes from CLOSED or CANCELLED
\* back to ACTIVE or DRAFT, never from DRAFT straight to CLOSED, and never
\* from CLOSED to CANCELLED or from CANCELLED to CLOSED.
C22_StatusMovesForward ==
    [][\A a \in DOMAIN auctions \cap DOMAIN auctions' :
          LET old == auctions[a].status
              new == auctions'[a].status
          IN /\ old \in {CLOSED, CANCELLED} => new \notin {ACTIVE, DRAFT}
             /\ old = DRAFT => new # CLOSED
             /\ old = CLOSED => new # CANCELLED
             /\ old = CANCELLED => new # CLOSED]_vars

\* the request body of the update_auction that has just been answered
EditBody == reqs'[1].json[1]

\* a named field of the body fails its validation
EditFieldFails ==
    \/ EditBody.title # NoKey /\ EditBody.title = Blank
    \/ EditBody.min_price.kind \in {"missing", "text", "nan"}
    \/ EditBody.min_price.kind = "num" /\ EditBody.min_price.milli < 5

\* the body names no field
EditNamesNothing ==
    EditBody.title = NoKey /\ EditBody.min_price.kind = "absent"

\* C30: update_auction changes nothing but the title and the price the
\* request names: status, window, seller and id of every auction and all
\* bids stay; a field the request does not name keeps its value; and a
\* request that names no field, or one of whose fields fails validation, is
\* not answered 200 and leaves every auction as it was.
C30_UpdateTouchesNamedFieldsOnly ==
    /\ [][Stepped("update_auction") =>
            /\ bids' = bids
            /\ notifications' = notifications
            /\ DOMAIN auctions' = DOMAIN auctions
            /\ \A a \in DOMAIN auctions :
                  /\ auctions'[a].id = auctions[a].id
                  /\ auctions'[a].status = auctions[a].status
                  /\ auctions'[a].start_at = auctions[a].start_at
                  /\ auctions'[a].end_at = auctions[a].end_at
                  /\ auctions'[a].seller_id = auctions[a].seller_id
                  /\ a # reqs'[1].auction_id => auctions'[a] = auctions[a]
                  /\ EditBody.title = NoKey
                        => auctions'[a].title = auctions[a].title
                  /\ EditBody.min_price.kind = "absent"
                        => auctions'[a].min_price = auctions[a].min_price]_vars
    /\ [][(Stepped("update_auction")
           /\ (EditNamesNothing \/ EditFieldFails))
          => (reqs'[1].code \in {400, 403, 404, 500}
              /\ auctions' = auctions)]_vars
    /\ [][(Stepped("update_auction") /\ reqs'[1].code = 200) =>
            LET a == reqs'[1].auction_id
            IN /\ EditBody.title # NoKey
                     => auctions'[a].title = EditBody.title
               /\ EditBody.min_price.kind # "absent"
                     => RoundsHalfUpTo(EditBody.min_price.milli,
                                       auctions'[a].min_price)]_vars

\* a request with a good title and a price that is not numeric has been
\* refused on an auction that has a bid, and the title is still the old one
C30_Witness ==
    /\ reqs[1].op = "update_auction"
    /\ reqs[1].code = 400
    /\ reqs[1].json[1].title = "t9"
    /\ reqs[1].json[1].min_price = Text
    /\ reqs[1].auction_id \in DOMAIN auctions
    /\ auctions[reqs[1].auction_id].title = "t1"
    /\ auctions[reqs[1].auction_id].min_price = 300
    /\ BidsOf(reqs[1].auction_id) # {}

\* C25: place_bid reports the first failing check in the order auction
\* exists, auction accepts bids, buyer under quota, amount valid: a request
\* for an id no auction has is answered 404 whatever its amount, and a
\* request of a buyer who already has 2 bids on the auction is answered
\* "Bid limit reached for this auction" whatever its amount.
C25_ChecksInOrder ==
    /\ [][(Stepped("place_bid") /\ reqs[1].pc = "done"
           /\ AuthFailure(reqs'[1].user, {BUYER}) = 0
           /\ reqs'[1].auction_id \notin DOMAIN auctions)
          => (reqs'[1].pc = "done" /\ reqs'[1].code = 404)]_vars
    /\ [][(Stepped("place_bid")
           /\ AuthFailure(reqs'[1].user, {BUYER}) = 0
           /\ reqs'[1].auction_id \in DOMAIN auctions
           /\ isAcceptingBids(auctions[reqs'[1].auction_id], now)
           /\ CountBids(reqs'[1].auction_id, reqs'[1].user) >= BID_LIMIT
           /\ reqs'[1].pc = "done")
          => (/\ reqs'[1].code = 400
              /\ reqs'[1].detail = "Bid limit reached for this auction")]_vars

\* the idx_per_buyer values of the committed bids of buyer u on auction a
IndexesOf(a, u) ==
    {b.idx_per_buyer : b \in {x \in bids : x.auction_id = a /\ x.buyer_id = u}}

\* C26: a bid is committed with idx_per_buyer one more than the number of
\* bids its buyer has in the store on that auction at that moment, so the
\* indexes of a buyer on an auction are 1..n, each held by one bid; of two
\* requests of one buyer on one auction that counted the same number, at
\* most one answers 201, and the step that refuses the other adds no bid
\* and no notification.
C26_IndexesAreDense ==
    /\ [][\A new \in bids' \ bids :
            new.idx_per_buyer =
                CountBids(new.auction_id, new.buyer_id) + 1]_vars
    /\ [](\A a \in AuctionIds, u \in UserIds :
            /\ IndexesOf(a, u) = 1..CountBids(a, u)
            /\ \A b1, b2 \in bids :
                  SameKey(b1, b2) => b1 = b2)
    /\ [](\A r1, r2 \in PlaceBidReqs :
            (/\ r1 # r2
             /\ reqs[r1].user = reqs[r2].user
             /\ reqs[r1].auction_id = reqs[r2].auction_id
             /\ reqs[r1].existing_count = reqs[r2].existing_count
             /\ reqs[r1].bid \in bids)
            => reqs[r2].bid \notin bids)
    /\ [][\A r \in ReqIds :
            (reqs'[r] # reqs[r] /\ reqs'[r].op = "place_bid"
             /\ reqs'[r].pc = "done" /\ reqs'[r].code = 500)
            => (bids' = bids /\ notifications' = notifications
                /\ deliveries' = deliveries)]_vars

\* two overlapping first bids of one buyer: one is committed with index 1,
\* the other has been refused by the store and left nothing
C26_Witness ==
    \E r1, r2 \in PlaceBidReqs :
        /\ r1 # r2
        /\ reqs[r1].user = reqs[r2].user
        /\ reqs[r1].auction_id = reqs[r2].auction_id
        /\ reqs[r1].existing_count = 0 /\ reqs[r2].existing_count = 0
        /\ reqs[r1].pc = "done" /\ reqs[r1].code = 201
        /\ reqs[r1].bid.idx_per_buyer = 1
        /\ reqs[r2].pc = "done" /\ reqs[r2].code = 500
        /\ IndexesOf(reqs[r1].auction_id, reqs[r1].user) = {1}
        /\ Cardinality(notifications) = Cardinality(bids)

\* request r of place_bid or create_auction is answered with a failure by a
\* step of the handler up to and including its COMMIT
FailsBeforeCommitEnds(r) ==
    /\ reqs'[r] # reqs[r]
    /\ reqs'[r].op \in {"place_bid", "create_auction"}
    /\ reqs[r].pc # "dispatch"
    /\ reqs'[r].pc = "done"
    /\ reqs'[r].code # 201

\* C27: the step in which a place_bid or create_auction request fails
\* (validation, state, quota, permission, or a persistence fault at flush
\* or commit) changes no table and dispatches no delivery; the tables
\* change only in the step in which a request commits; and every delivery
\* ever dispatched is for a notification row that is in the store.
C27_FailureLeavesNothing ==
    /\ [][\A r \in ReqIds :
            FailsBeforeCommitEnds(r)
            => UNCHANGED <<bids, auctions, notifications, deliveries,
                           nextBidId, nextAuctionId, nextNotifId>>]_vars
    /\ [][(bids' # bids \/ auctions' # auctions
           \/ notifications' # notifications)
          => \E r \in ReqIds :
                /\ reqs'[r] # reqs[r]
                /\ reqs[r].pc \in {"commit", "done"}
                /\ reqs'[r].code = 201
                /\ reqs'[r].pc \in {"done", "dispatch"}]_vars
    /\ [](\A i \in DOMAIN deliveries :
            \E n \in notifications : n.id = deliveries[i].data.id)

\* a second bid of a buyer was lost to a persistence fault at commit, after
\* its flush: the store holds the first bid, its notification and its one
\* delivery, and nothing of the second
C27_Witness ==
    /\ reqs[1].op = "place_bid"
    /\ reqs[1].pc = "done"
    /\ reqs[1].code = 500
    /\ reqs[1].bid # NoBid
    /\ reqs[1].bid.idx_per_buyer = 2
    /\ reqs[1].bid \notin bids
    /\ Cardinality(bids) = 1
    /\ Cardinality(notifications) = 1
    /\ Len(deliveries) = 1

\* C28: whatever the interleaving of place_bid and delete_auction on one
\* auction, no bid is committed for an auction that is not in the store,
\* and the commit of a delete leaves no bid of the deleted auction behind.
C28_NoOrphanUnderRace ==
    /\ [][\A new \in bids' \ bids :
            new.auction_id \in DOMAIN auctions']_vars
    /\ [][\A a \in DOMAIN auctions \ DOMAIN auctions' :
            \A b \in bids' : b.auction_id # a]_vars

\* C29: however often push delivery is initialised, on the same app or on
\* further app instances of the process, a notification has at most one
\* entry in the pending list of its session and is dispatched at most
\* once.
C29_InitAppIdempotent ==
    /\ \A i, j \in DOMAIN script.pending :
          script.pending[i].id = script.pending[j].id => i = j
    /\ \A i, j \in DOMAIN script.todo :
          script.todo[i].id = script.todo[j].id => i = j
    /\ \A n \in notifications : DispatchCount(n.id) <= 1

\* init_app repeated on the app that is already initialised: one listener
\* set, one committed notification, one dispatch
C29_SameAppOnly ==
    Listeners = 1 => C29_InitAppIdempotent

\* C23: the tokens a delivery is dispatched with are the recipient's
\* registered tokens at the moment of the dispatch: every delivery a step
\* adds carries exactly the Device rows the recipient has in that step.
C23_TokensAtTrigger ==
    [][\A i \in DOMAIN deliveries' :
          i \notin DOMAIN deliveries =>
             deliveries'[i].data.tokens =
                {t \in DOMAIN devices' :
                    devices'[t] = deliveries'[i].data.user_id}]_vars

\* a delivery runs to its end in this step: a worker thread finishes, or an
\* inline delivery is made
Executes(i) ==
    /\ i \in DOMAIN deliveries'
    /\ deliveries'[i].state # "started"
    /\ i \in DOMAIN deliveries => deliveries[i].state = "started"

RowExists(id) == \E n \in notifications \cup script.rows : n.id = id

\* a delivery dispatched after a commit and executed in this step without
\* its row ends skipped
DispatchedSkips ==
    \A i \in DOMAIN deliveries' :
        (Executes(i) /\ ~RowExists(deliveries'[i].data.id))
        => deliveries'[i].state = "skipped"

\* a call with the id of a missing row, made in this step, ends skipped
IdCallSkips ==
    \A k \in DOMAIN script'.calls :
        (k \notin DOMAIN script.calls /\ ~RowExists(script'.calls[k].id))
        => script'.calls[k].state = "skipped"

\* C24: a delivery that executes when its notification row no longer
\* exists sends nothing and raises nothing, whether it was dispatched after
\* a commit or called with the row id.
C24_MissingRowSkipped == [][DispatchedSkips /\ IdCallSkips]_vars

\* the id path alone honours it
C24_IdPathOnly == [][IdCallSkips]_vars

====
